---------------------------- MODULE Spec2Model ----------------------------
(***************************************************************************)
(* A model of one mi-blockchain node (core/blockchain.py, core/block.py,   *)
(* core/transaction.py, network/node.py, miner.py) running its miner       *)
(* thread, its HTTP handler threads and a chain-sync thread against one    *)
(* honest peer.                                                            *)
(*                                                                         *)
(* Digests.  _double_sha256(_serialize_deterministic(v)) is modelled as a  *)
(* collision-free function of v: the digest of v is v itself.  A block     *)
(* hash is the pair [zeros, digest]: the number of leading '0' hex         *)
(* characters and the header it was computed from; the number of leading   *)
(* zeros of a header's hash is carried by its nonce.  The string "0"       *)
(* (previous_hash of a genesis block) is the hash with one leading zero    *)
(* and an empty digest.                                                    *)
(*                                                                         *)
(* Clock.  time.time() is the variable now.  The construction of a block   *)
(* reads it and lets it advance, so two blocks (and two coinbases) never   *)
(* carry the same instant; everything else reads it as it stands.          *)
(***************************************************************************)
EXTENDS Integers, Sequences, FiniteSets, TLC

\* ------------------------------------------------------------ bounds
\* A miner (local or peer) starts no block on a chain of this length.
MaxChain == 3
\* Transactions wallets sign while a peer is heard of, and while none is.
MaxTx == 1
MaxLocalTx == 3
\* No block is started at this time of the clock or later.
MaxClock == 6
\* The latest time of the clock at which a process constructs its Blockchain.
MaxGenesisClock == 6
\* Scaled stand-ins for MAX_MEMPOOL_SIZE (500) and MAX_TX_PER_BLOCK (5) of
\* core/blockchain.py: the code compares lengths against them and nothing else.
MAX_MEMPOOL_SIZE == 2
MAX_TX_PER_BLOCK == 2

\* ------------------------------------------------- program constants
TX_EXPIRY_SECONDS == 86400
INITIAL_REWARD == 50
HALVING_INTERVAL == 210
DIFFICULTY_INTERVAL == 10
TARGET_BLOCK_TIME == 30
MAX_PEER_STRIKES == 3
MAX_TIMESTAMP_DRIFT == 7200
GENESIS_AMOUNT == 1000
\* run_node.py: Blockchain(difficulty=2)
NODE_DIFFICULTY == 2

\* ------------------------------------------------------- identities
\* Wallets: PEM public keys, each named by its owner.  b"genesis" is the
\* recipient of the genesis output and is not a PEM key.
MINER_ADDRESS == "mA"
PEER_MINER == "mP"
Wallets == {MINER_ADDRESS, PEER_MINER, "bob"}
Recipients == {"bob"}
Fees == {1}
GENESIS_RECIPIENT == "genesis"
PEER_URL == "P"

\* TxInput.signature: None, or an ECDSA signature by a private key over a digest.
NoSig == [by |-> "none", over |-> <<>>]
Sig(owner, digest) == [by |-> owner, over |-> <<digest>>]

\* The string "0".
ZERO_HASH == [zeros |-> 1, digest |-> <<>>]

\* ------------------------------------------------------- arithmetic
RECURSIVE Pow2(_)
Pow2(n) == IF n = 0 THEN 1 ELSE 2 * Pow2(n - 1)

Max(a, b) == IF a >= b THEN a ELSE b
Min(a, b) == IF a <= b THEN a ELSE b

RECURSIVE SumSeq(_)
SumSeq(s) == IF s = <<>> THEN 0 ELSE Head(s) + SumSeq(Tail(s))

\* ------------------------------------------------------ Transaction
TxKey(inp) == <<inp.tx_id, inp.output_index>>

\* The data of the id and of the signing hash with the signatures left in.
_signable_data_signed(tx) ==
    [inputs    |-> tx.inputs,
     outputs   |-> [i \in 1..Len(tx.outputs) |->
                      [amount |-> tx.outputs[i].amount,
                       recipient |-> tx.outputs[i].recipient_public_key]],
     timestamp |-> tx.timestamp]

_signable_data(tx) ==
    [inputs    |-> [i \in 1..Len(tx.inputs) |->
                      [tx_id |-> tx.inputs[i].tx_id,
                       output_index |-> tx.inputs[i].output_index]],
     outputs   |-> [i \in 1..Len(tx.outputs) |->
                      [amount |-> tx.outputs[i].amount,
                       recipient |-> tx.outputs[i].recipient_public_key]],
     timestamp |-> tx.timestamp]

calculate_id(tx) == _signable_data(tx)

hash_for_signature(tx) == _signable_data(tx)

\* Transaction(inputs, outputs, timestamp): timestamp or time.time(), then the id.
\* A timestamp of 0 stands for None (and for 0, which Python also takes as false).
NewTransaction(inputs, outputs, timestamp, clock) ==
    LET body == [inputs |-> inputs, outputs |-> outputs,
                 timestamp |-> IF timestamp = 0 THEN clock ELSE timestamp]
    IN  [id |-> calculate_id(body), timestamp |-> body.timestamp,
         inputs |-> inputs, outputs |-> outputs]

\* Transaction.sign: every input signed over hash_for_signature.
sign(tx, owner) ==
    [tx EXCEPT !.inputs = [i \in 1..Len(tx.inputs) |->
        [tx.inputs[i] EXCEPT !.signature = Sig(owner, hash_for_signature(tx))]]]

is_coinbase(tx) == Len(tx.inputs) = 0

\* Transaction.to_dict with TxInput.to_dict and TxOutput.to_dict: a signature
\* goes out as its hex string, or as null (<<>>) when there is none; a
\* recipient key goes out decoded to a str.
tx_to_dict(tx) ==
    LET input_to_dict(i) ==
            [tx_id |-> i.tx_id, output_index |-> i.output_index,
             signature |-> IF i.signature = NoSig THEN <<>> ELSE <<[hex |-> i.signature]>>]
        output_to_dict(o) ==
            [amount |-> o.amount, recipient_public_key |-> [str |-> o.recipient_public_key]]
    IN  [id |-> tx.id, timestamp |-> tx.timestamp,
         inputs |-> [k \in 1..Len(tx.inputs) |-> input_to_dict(tx.inputs[k])],
         outputs |-> [k \in 1..Len(tx.outputs) |-> output_to_dict(tx.outputs[k])]]

\* Transaction.from_dict with TxInput.from_dict and TxOutput.from_dict: a new
\* Transaction whose id is then overwritten by data["id"].
tx_from_dict(data, clock) ==
    LET input_from_dict(i) ==
            [tx_id |-> i.tx_id, output_index |-> i.output_index,
             signature |-> IF i.signature = <<>> THEN NoSig ELSE i.signature[1].hex]
        output_from_dict(o) ==
            [amount |-> o.amount, recipient_public_key |-> o.recipient_public_key.str]
    IN  [NewTransaction([k \in 1..Len(data.inputs) |-> input_from_dict(data.inputs[k])],
                        [k \in 1..Len(data.outputs) |-> output_from_dict(data.outputs[k])],
                        data.timestamp, clock)
            EXCEPT !.id = data.id]

\* load_pem_public_key + public_key.verify of one input against the output it spends.
SignatureOk(tx, inp, utxo) ==
    /\ utxo.recipient_public_key \in Wallets
    /\ inp.signature = Sig(utxo.recipient_public_key, hash_for_signature(tx))

InputAmounts(tx, utxo_set) ==
    [i \in 1..Len(tx.inputs) |-> utxo_set[TxKey(tx.inputs[i])].amount]

OutputAmounts(tx) == [i \in 1..Len(tx.outputs) |-> tx.outputs[i].amount]

\* Transaction.verify without the call of public_key.verify.
verify_unsigned(tx, utxo_set) ==
    IF is_coinbase(tx) THEN [ok |-> TRUE, fee |-> 0]
    ELSE IF /\ SumSeq(OutputAmounts(tx)) >= 0
            /\ \A i \in 1..Len(tx.inputs) :
                  /\ TxKey(tx.inputs[i]) \in DOMAIN utxo_set
                  /\ utxo_set[TxKey(tx.inputs[i])].amount >= 0
            /\ SumSeq(InputAmounts(tx, utxo_set)) >= SumSeq(OutputAmounts(tx))
         THEN [ok |-> TRUE,
               fee |-> SumSeq(InputAmounts(tx, utxo_set)) - SumSeq(OutputAmounts(tx))]
         ELSE [ok |-> FALSE, fee |-> 0]

\* Transaction.verify: ok is FALSE where the code raises.
verify(tx, utxo_set) ==
    IF is_coinbase(tx) THEN [ok |-> TRUE, fee |-> 0]
    ELSE IF /\ SumSeq(OutputAmounts(tx)) >= 0
            /\ \A i \in 1..Len(tx.inputs) :
                  /\ TxKey(tx.inputs[i]) \in DOMAIN utxo_set
                  /\ utxo_set[TxKey(tx.inputs[i])].amount >= 0
                  /\ SignatureOk(tx, tx.inputs[i], utxo_set[TxKey(tx.inputs[i])])
            /\ SumSeq(InputAmounts(tx, utxo_set)) >= SumSeq(OutputAmounts(tx))
         THEN [ok |-> TRUE,
               fee |-> SumSeq(InputAmounts(tx, utxo_set)) - SumSeq(OutputAmounts(tx))]
         ELSE [ok |-> FALSE, fee |-> 0]

\* The utxo_set argument after verify returned or raised: verify reads it with
\* "in" and [] and never assigns to it.
view_after_verify(tx, utxo_set) == utxo_set

\* ------------------------------------------------------------ Block
_header_data(b) ==
    [index |-> b.index, timestamp |-> b.timestamp,
     transactions |-> [i \in 1..Len(b.transactions) |-> tx_to_dict(b.transactions[i])],
     previous_hash |-> b.previous_hash, difficulty |-> b.difficulty,
     nonce |-> b.nonce]

\* Leading '0' characters of the digest of a header.
LeadingZeros(header) == header.nonce

calculate_hash(b) ==
    [zeros |-> LeadingZeros(_header_data(b)), digest |-> <<_header_data(b)>>]

\* hash.startswith("0" * n)
StartsWithZeros(h, n) == h.zeros >= n

\* Block.mine_block: the first nonce, counting up from the one given, whose hash
\* starts with difficulty zeros.
mine_block(b) ==
    LET mined == [b EXCEPT !.nonce = Max(b.nonce, b.difficulty)]
    IN  [mined EXCEPT !.hash = calculate_hash(mined)]

\* Block(index, timestamp, transactions, previous_hash, difficulty): mined on construction.
NewBlock(index, timestamp, transactions, previous_hash, difficulty) ==
    mine_block([index |-> index, timestamp |-> timestamp,
                transactions |-> transactions, previous_hash |-> previous_hash,
                difficulty |-> difficulty, nonce |-> 0, hash |-> ZERO_HASH])

block_to_dict(b) ==
    [index |-> b.index, timestamp |-> b.timestamp,
     transactions |-> [i \in 1..Len(b.transactions) |-> tx_to_dict(b.transactions[i])],
     previous_hash |-> b.previous_hash, difficulty |-> b.difficulty,
     nonce |-> b.nonce, hash |-> b.hash]

\* Block.from_dict: the hash is given, so the block is not mined again.
block_from_dict(data, clock) ==
    [index |-> data.index, timestamp |-> data.timestamp,
     transactions |-> [i \in 1..Len(data.transactions) |->
                          tx_from_dict(data.transactions[i], clock)],
     previous_hash |-> data.previous_hash, difficulty |-> data.difficulty,
     nonce |-> data.nonce, hash |-> data.hash]


\* ------------------------------------------------------- Blockchain
\* get_mining_reward with the halvings counted one block early.
get_mining_reward_early(block_index) ==
    [num |-> Max(0, INITIAL_REWARD),
     den |-> Pow2((block_index + 1) \div HALVING_INTERVAL)]

\* get_mining_reward: INITIAL_REWARD / (2 ** halvings) is a float, exact for a
\* power of two below it; it is kept as the fraction num / den. max(0, reward)
\* acts on the numerator, the denominator being positive.
get_mining_reward(block_index) ==
    [num |-> Max(0, INITIAL_REWARD),
     den |-> Pow2(block_index \div HALVING_INTERVAL)]

\* A reward compared with or added to the amounts of a block: the float 50.0 is
\* the amount 50. Exact while den divides num, which it does below 2 *
\* HALVING_INTERVAL blocks.
coins(reward) == reward.num \div reward.den

get_latest_block(chain) == chain[Len(chain)]

\* Blockchain.apply_transaction on a UTXO map: the inputs' keys deleted, then
\* output number i stored under (tx.id, i), i counted from 0.
apply_transaction(tx, utxo_set) ==
    LET spent == {TxKey(tx.inputs[i]) : i \in 1..Len(tx.inputs)}
        kept  == [k \in (DOMAIN utxo_set) \ spent |-> utxo_set[k]]
        made  == [k \in {<<tx.id, i - 1>> : i \in 1..Len(tx.outputs)} |->
                     tx.outputs[k[2] + 1]]
    IN  made @@ kept

\* The transactions of a list applied in order.
RECURSIVE apply_all(_, _)
apply_all(txs, utxo_set) ==
    IF txs = <<>> THEN utxo_set
    ELSE apply_all(Tail(txs), apply_transaction(Head(txs), utxo_set))

EmptyUtxo == [k \in {} |-> 0]

RECURSIVE rebuild_from(_, _)
rebuild_from(chain, utxo_set) ==
    IF chain = <<>> THEN utxo_set
    ELSE rebuild_from(Tail(chain), apply_all(Head(chain).transactions, utxo_set))

rebuild_utxo_set(chain) == rebuild_from(chain, EmptyUtxo)

\* Blockchain._rebuild_tx_index, and the loop of add_block that indexes one block:
\* a later block's entry for an id replaces an earlier one.
index_block(block, tx_index) ==
    [id \in {block.transactions[i].id : i \in 1..Len(block.transactions)} |->
        block.index] @@ tx_index

RECURSIVE index_from(_, _)
index_from(chain, tx_index) ==
    IF chain = <<>> THEN tx_index
    ELSE index_from(Tail(chain), index_block(Head(chain), tx_index))

_rebuild_tx_index(chain) == index_from(chain, [k \in {} |-> 0])

\* Blockchain.get_transaction: <<>> is (None, None); tx_index holds block.index,
\* which is used as a position in the chain, and a position past the end raises.
get_transaction(tx_id, tx_index, chain) ==
    IF tx_id \notin DOMAIN tx_index THEN [found |-> <<>>, raised |-> FALSE]
    ELSE LET block_index == tx_index[tx_id]
         IN  IF block_index + 1 \notin 1..Len(chain)
             THEN [found |-> <<>>, raised |-> TRUE]
             ELSE LET block == chain[block_index + 1]
                      hits  == {j \in 1..Len(block.transactions) :
                                   block.transactions[j].id = tx_id}
                  IN  IF hits = {} THEN [found |-> <<>>, raised |-> FALSE]
                      ELSE [found |-> <<[tx |-> block.transactions[
                                                    CHOOSE j \in hits : \A k \in hits : j <= k],
                                         block_index |-> block_index]>>,
                            raised |-> FALSE]

\* round(a / b) of Python 3 for a >= 0, b > 0: halves go to the even neighbour.
RoundDiv(a, b) ==
    LET q == a \div b
        r == a % b
    IN  IF 2 * r < b THEN q
        ELSE IF 2 * r > b THEN q + 1
        ELSE IF q % 2 = 0 THEN q ELSE q + 1

\* calculate_next_difficulty without the two ifs that limit tiempo_real; a span
\* of zero or less is taken as one second.
calculate_next_difficulty_unclamped(chain, difficulty) ==
    LET chain_len   == Len(chain)
        tiempo_obj  == TARGET_BLOCK_TIME * DIFFICULTY_INTERVAL
        real        == chain[chain_len].timestamp
                         - chain[chain_len - DIFFICULTY_INTERVAL + 1].timestamp
    IN  IF chain_len < DIFFICULTY_INTERVAL \/ chain_len % DIFFICULTY_INTERVAL # 0
        THEN difficulty
        ELSE Max(1, RoundDiv(difficulty * tiempo_obj, Max(1, real)))

calculate_next_difficulty(chain, difficulty) ==
    LET chain_len   == Len(chain)
        tiempo_obj  == TARGET_BLOCK_TIME * DIFFICULTY_INTERVAL
        real        == chain[chain_len].timestamp
                         - chain[chain_len - DIFFICULTY_INTERVAL + 1].timestamp
        \* tiempo_real clamped to [tiempo_obj / 2, tiempo_obj * 2], kept doubled
        \* so that tiempo_obj / 2 stays an integer
        real2       == Min(Max(2 * real, tiempo_obj), 4 * tiempo_obj)
    IN  IF chain_len < DIFFICULTY_INTERVAL \/ chain_len % DIFFICULTY_INTERVAL # 0
        THEN difficulty
        ELSE Max(1, RoundDiv(2 * difficulty * tiempo_obj, real2))

\* The loop of validate_block over transactions[1:]: each verified against the
\* snapshot and applied to it, the fees added up.
RECURSIVE verify_all(_, _, _)
verify_all(txs, utxo_snapshot, fees_total) ==
    IF txs = <<>> THEN [ok |-> TRUE, fees |-> fees_total]
    ELSE LET res == verify(Head(txs), utxo_snapshot)
         IN  IF ~res.ok THEN [ok |-> FALSE, fees |-> 0]
             ELSE verify_all(Tail(txs), apply_transaction(Head(txs), utxo_snapshot),
                             fees_total + res.fee)

coinbase_amount(coinbase) ==
    IF Len(coinbase.outputs) > 0 THEN coinbase.outputs[1].amount ELSE 0

validate_block(block, chain, utxo_set, clock) ==
    LET latest == get_latest_block(chain)
        genesis_difficulty == chain[1].difficulty
    IN  /\ block.previous_hash = latest.hash
        /\ block.index = latest.index + 1
        /\ calculate_hash(block) = block.hash
        /\ StartsWithZeros(block.hash, genesis_difficulty)
        /\ block.difficulty >= genesis_difficulty
        /\ block.timestamp <= clock + 7200
        /\ Len(block.transactions) # 0
        /\ is_coinbase(block.transactions[1])
        /\ LET res == verify_all(Tail(block.transactions), utxo_set, 0)
           IN  /\ res.ok
               /\ coinbase_amount(block.transactions[1])
                    = coins(get_mining_reward(Len(chain))) + res.fees

\* The view the loop of validate_block over transactions[1:] ends with: each
\* transaction that verifies is applied, the first that does not stops the loop.
RECURSIVE view_after_loop(_, _)
view_after_loop(txs, utxo_view) ==
    IF txs = <<>> THEN utxo_view
    ELSE IF ~verify(Head(txs), utxo_view).ok THEN utxo_view
         ELSE view_after_loop(Tail(txs), apply_transaction(Head(txs), utxo_view))

\* validate_block with its loop run on self.utxo_set itself.
utxo_after_validation_live(block, chain, utxo_set, clock) ==
    IF /\ block.previous_hash = get_latest_block(chain).hash
       /\ block.index = get_latest_block(chain).index + 1
       /\ calculate_hash(block) = block.hash
       /\ StartsWithZeros(block.hash, chain[1].difficulty)
       /\ block.difficulty >= chain[1].difficulty
       /\ block.timestamp <= clock + 7200
       /\ Len(block.transactions) # 0
       /\ is_coinbase(block.transactions[1])
    THEN view_after_loop(Tail(block.transactions), utxo_set)
    ELSE utxo_set

\* self.utxo_set after validate_block returned: the loop runs on
\* copy.deepcopy(self.utxo_set), so the live set is what it was.
utxo_after_validation(block, chain, utxo_set, clock) == utxo_set

\* validate_chain, block by block: st is [ok, utxo], i the position of the block
\* counted from 0.
RECURSIVE chain_txs(_, _, _, _, _, _)
chain_txs(txs, pos, i, utxo, fees, cb) ==
    \* cb: <<>> while no coinbase was seen, <<tx>> after
    IF txs = <<>> THEN [ok |-> TRUE, utxo |-> utxo, fees |-> fees, cb |-> cb]
    ELSE LET tx == Head(txs)
         IN  IF is_coinbase(tx)
             THEN IF i = 0
                  THEN chain_txs(Tail(txs), pos + 1, i, apply_transaction(tx, utxo), fees, cb)
                  ELSE IF pos # 0 \/ cb # <<>>
                       THEN [ok |-> FALSE, utxo |-> utxo, fees |-> fees, cb |-> cb]
                       ELSE chain_txs(Tail(txs), pos + 1, i, utxo, fees, <<tx>>)
             ELSE LET res == verify(tx, utxo)
                  IN  IF ~res.ok
                      THEN [ok |-> FALSE, utxo |-> utxo, fees |-> fees, cb |-> cb]
                      ELSE chain_txs(Tail(txs), pos + 1, i, apply_transaction(tx, utxo),
                                     fees + res.fee, cb)

RECURSIVE chain_from(_, _, _, _)
chain_from(chain, i, utxo, clock) ==
    IF i >= Len(chain) THEN TRUE
    ELSE LET block == chain[i + 1]
             links == IF i = 0 THEN block.previous_hash = ZERO_HASH
                      ELSE /\ block.previous_hash = chain[i].hash
                           /\ StartsWithZeros(block.hash, block.difficulty)
                           /\ block.timestamp >= chain[i].timestamp
                           /\ block.timestamp <= clock + 7200
             res   == chain_txs(block.transactions, 0, i, utxo, 0, <<>>)
         IN  /\ links
             /\ res.ok
             /\ IF res.cb # <<>>
                THEN /\ i > 0 => coinbase_amount(res.cb[1]) = coins(get_mining_reward(i)) + res.fees
                     /\ chain_from(chain, i + 1, apply_transaction(res.cb[1], res.utxo), clock)
                ELSE chain_from(chain, i + 1, res.utxo, clock)

validate_chain(chain, clock) == chain_from(chain, 0, EmptyUtxo, clock)

\* Blockchain.get_locked_utxos
get_locked_utxos(pending) ==
    UNION {{TxKey(pending[j].inputs[i]) : i \in 1..Len(pending[j].inputs)} :
              j \in 1..Len(pending)}

\* Blockchain.get_tx_fee raises KeyError when an input is not in the UTXO set.
FeeDefined(tx, utxo_set) ==
    \A i \in 1..Len(tx.inputs) : TxKey(tx.inputs[i]) \in DOMAIN utxo_set

get_tx_fee(tx, utxo_set) ==
    SumSeq(InputAmounts(tx, utxo_set)) - SumSeq(OutputAmounts(tx))

\* add_transaction without its look at get_locked_utxos.
add_transaction_unlocked(tx, utxo_set, pending) ==
    /\ \A i \in 1..Len(tx.inputs) : TxKey(tx.inputs[i]) \in DOMAIN utxo_set
    /\ SumSeq(InputAmounts(tx, utxo_set)) >= SumSeq(OutputAmounts(tx))
    /\ verify(tx, utxo_set).ok
    /\ Len(pending) < MAX_MEMPOOL_SIZE

\* Blockchain.add_transaction up to its last check: TRUE when the transaction is
\* to be appended.
add_transaction_accepts(tx, utxo_set, pending) ==
    /\ \A i \in 1..Len(tx.inputs) :
          /\ TxKey(tx.inputs[i]) \in DOMAIN utxo_set
          /\ TxKey(tx.inputs[i]) \notin get_locked_utxos(pending)
    /\ SumSeq(InputAmounts(tx, utxo_set)) >= SumSeq(OutputAmounts(tx))
    /\ verify(tx, utxo_set).ok
    /\ Len(pending) < MAX_MEMPOOL_SIZE

\* sorted(pending, key=get_tx_fee, reverse=True): stable, highest fee first.
RECURSIVE insert_by_fee(_, _, _)
insert_by_fee(tx, sorted, utxo_set) ==
    IF sorted = <<>> THEN <<tx>>
    ELSE IF get_tx_fee(Head(sorted), utxo_set) >= get_tx_fee(tx, utxo_set)
         THEN <<Head(sorted)>> \o insert_by_fee(tx, Tail(sorted), utxo_set)
         ELSE <<tx>> \o sorted

RECURSIVE sort_by_fee(_, _, _)
sort_by_fee(pending, sorted, utxo_set) ==
    IF pending = <<>> THEN sorted
    ELSE sort_by_fee(Tail(pending), insert_by_fee(Head(pending), sorted, utxo_set),
                     utxo_set)

\* The selection loop of mine_pending_transactions.
RECURSIVE select_txs(_, _, _)
select_txs(sorted_txs, utxo_snapshot, selected) ==
    IF sorted_txs = <<>> \/ Len(selected) = MAX_TX_PER_BLOCK THEN selected
    ELSE IF verify(Head(sorted_txs), utxo_snapshot).ok
         THEN select_txs(Tail(sorted_txs),
                         apply_transaction(Head(sorted_txs), utxo_snapshot),
                         Append(selected, Head(sorted_txs)))
         ELSE select_txs(Tail(sorted_txs), utxo_snapshot, selected)

RECURSIVE fees_of(_, _)
fees_of(selected, utxo_set) ==
    IF selected = <<>> THEN 0
    ELSE get_tx_fee(Head(selected), utxo_set) + fees_of(Tail(selected), utxo_set)

\* list.remove(tx) when tx is in the list: the first equal entry goes.
RECURSIVE remove_first(_, _)
remove_first(pending, tx) ==
    IF pending = <<>> THEN <<>>
    ELSE IF Head(pending) = tx THEN Tail(pending)
         ELSE <<Head(pending)>> \o remove_first(Tail(pending), tx)

RECURSIVE remove_all(_, _)
remove_all(pending, selected) ==
    IF selected = <<>> THEN pending
    ELSE remove_all(remove_first(pending, Head(selected)), Tail(selected))

\* The candidate block of mine_pending_transactions: coinbase first, then the
\* selected transactions, mined at the node's current difficulty on the tip.
candidate_block(chain, difficulty, selected, utxo_set, miner_pubkey, clock) ==
    LET coinbase_tx == NewTransaction(<<>>,
                          <<[amount |-> coins(get_mining_reward(Len(chain)))
                                          + fees_of(selected, utxo_set),
                             recipient_public_key |-> miner_pubkey]>>, 0, clock)
    IN  NewBlock(Len(chain), clock, <<coinbase_tx>> \o selected,
                 get_latest_block(chain).hash, difficulty)

\* Blockchain.create_genesis_block: the transaction takes the wall clock, the
\* block the fixed GENESIS_TIMESTAMP (1_700_000_000, the model's 0).
GENESIS_TIMESTAMP == 0
genesis_block(difficulty, clock) ==
    LET genesis_tx == NewTransaction(<<>>,
                         <<[amount |-> GENESIS_AMOUNT,
                            recipient_public_key |-> GENESIS_RECIPIENT]>>, 0, clock)
    IN  NewBlock(0, GENESIS_TIMESTAMP, <<genesis_tx>>, ZERO_HASH, difficulty)


\* ============================================================ state
\* ------------------------------------------------------- handshakes
\* The nodes of a network, each named by its public_url.
Nodes == {"A", "B", "C"}

\* "0.2" as the tuple of integers handle_handshake makes of it.
MIN_VERSION == <<0, 2>>
VERSION == <<0, 2>>

\* The bodies POSTed to /p2p/handshake: the url absent or a node's, the version
\* "0", "0.1", "0.2", "0.10" or "1".
Payloads ==
    [url : {<<>>} \cup {<<n>> : n \in Nodes},
     version : {<<0>>, <<0, 1>>, <<0, 2>>, <<0, 10>>, <<1>>}]

\* handle_handshake as written without the comparison with public_url.
handle_handshake_any_url(payload, public_url, peer_set) ==
    LET lower(a, b) ==
            \/ \E k \in 1..Min(Len(a), Len(b)) :
                  /\ \A j \in 1..(k - 1) : a[j] = b[j]
                  /\ a[k] < b[k]
            \/ /\ Len(a) < Len(b)
               /\ \A j \in 1..Len(a) : a[j] = b[j]
    IN  IF payload.url = <<>>
        THEN [ok |-> FALSE, peers |-> peer_set, es_nuevo |-> FALSE]
        ELSE IF lower(payload.version, MIN_VERSION)
        THEN [ok |-> FALSE, peers |-> peer_set, es_nuevo |-> FALSE]
        ELSE [ok |-> TRUE, peers |-> peer_set \cup {payload.url[1]},
              es_nuevo |-> payload.url[1] \notin peer_set]

\* handle_handshake as written with the propagation thread started for every
\* handshake it accepts.
handle_handshake_always_new(payload, public_url, peer_set) ==
    LET lower(a, b) ==
            \/ \E k \in 1..Min(Len(a), Len(b)) :
                  /\ \A j \in 1..(k - 1) : a[j] = b[j]
                  /\ a[k] < b[k]
            \/ /\ Len(a) < Len(b)
               /\ \A j \in 1..Len(a) : a[j] = b[j]
    IN  IF payload.url = <<>> \/ payload.url = <<public_url>>
        THEN [ok |-> FALSE, peers |-> peer_set, es_nuevo |-> FALSE]
        ELSE IF lower(payload.version, MIN_VERSION)
        THEN [ok |-> FALSE, peers |-> peer_set, es_nuevo |-> FALSE]
        ELSE [ok |-> TRUE, peers |-> peer_set \cup {payload.url[1]},
              es_nuevo |-> TRUE]

\* Node.handle_handshake: what it returns, the peer set it leaves, and whether
\* it starts a thread on _propagar_nuevo_peer. Versions compare as Python
\* tuples of integers do.
handle_handshake(payload, public_url, peer_set) ==
    LET lower(a, b) ==
            \/ \E k \in 1..Min(Len(a), Len(b)) :
                  /\ \A j \in 1..(k - 1) : a[j] = b[j]
                  /\ a[k] < b[k]
            \/ /\ Len(a) < Len(b)
               /\ \A j \in 1..Len(a) : a[j] = b[j]
    IN  IF payload.url = <<>> \/ payload.url = <<public_url>>
        THEN [ok |-> FALSE, peers |-> peer_set, es_nuevo |-> FALSE]
        ELSE IF lower(payload.version, MIN_VERSION)
        THEN [ok |-> FALSE, peers |-> peer_set, es_nuevo |-> FALSE]
        ELSE [ok |-> TRUE, peers |-> peer_set \cup {payload.url[1]},
              es_nuevo |-> payload.url[1] \notin peer_set]

VARIABLES
    \* Blockchain
    chain, utxo_set, pending_transactions, tx_index, difficulty,
    \* Node
    peers, peer_strikes, peers_on_disk,
    \* a network of nodes: the peer set of each, the threads running
    \* connect_to_peer and _propagar_nuevo_peer, the connections made
    overlay,
    \* the miner thread: its position, its candidate block, its selected list;
    \* the Event Miner._running
    miner_pc, miner_block, miner_selected, miner_running,
    \* the HTTP handler threads: position and the block or transaction in hand
    handler_pc, handler_arg,
    \* the thread running _sync_chain_from: position and new_chain
    sync_pc, sync_chain,
    \* the peer's chain, the transactions wallets have signed, the wall clock
    peer_chain, wallet_txs, now,
    \* a call of a function on its own: the arguments, then what it returned
    call

node_vars == <<chain, utxo_set, pending_transactions, tx_index, difficulty>>
net_vars == <<peers, peer_strikes, peers_on_disk, overlay>>
miner_vars == <<miner_pc, miner_block, miner_selected, miner_running>>
handler_vars == <<handler_pc, handler_arg>>
sync_vars == <<sync_pc, sync_chain>>
env_vars == <<peer_chain, wallet_txs, now>>
vars == <<node_vars, net_vars, miner_vars, handler_vars, sync_vars, env_vars, call>>

Handlers == {"h1", "h2"}

\* Blockchain.__init__ with no saved data, then Node.__init__ and Miner.__init__:
\* the node's genesis is created at clock 1, the peer's own at clock 2.
Init ==
    /\ chain = <<genesis_block(NODE_DIFFICULTY, 1)>>
    /\ utxo_set = apply_transaction(genesis_block(NODE_DIFFICULTY, 1).transactions[1],
                                    EmptyUtxo)
    /\ pending_transactions = <<>>
    /\ tx_index = [k \in {} |-> 0]
    /\ difficulty = NODE_DIFFICULTY
    /\ peers = {}
    /\ peers_on_disk = {}
    /\ overlay = [peers |-> [n \in Nodes |-> {}], tasks |-> {}, connected |-> {}]
    /\ peer_strikes = [k \in {} |-> 0]
    /\ miner_pc = "wait"
    /\ miner_block = <<>>
    /\ miner_selected = <<>>
    /\ miner_running = TRUE
    /\ handler_pc = [h \in Handlers |-> "idle"]
    /\ handler_arg = [h \in Handlers |-> <<>>]
    /\ sync_pc = "idle"
    /\ sync_chain = <<>>
    /\ peer_chain = <<genesis_block(NODE_DIFFICULTY, 2)>>
    /\ wallet_txs = {}
    /\ now = 3
    /\ call = <<>>

\* ------------------------------------------------- the miner thread
\* _mining_loop as written without its self._running.wait().
running_wait_skipped == TRUE

\* _mining_loop, self._running.wait(): the call returns once the Event is set.
running_wait == miner_running

\* _mining_loop past _running.wait(), then
\* mine_pending_transactions up to and including Block(...): expired entries
\* dropped from the mempool, the rest sorted by fee (get_tx_fee raises KeyError
\* for an entry whose input is not in the UTXO set, which ends the thread),
\* the selection, the coinbase and the nonce search.
MinerBuildWithin(max_chain, max_clock) ==
    /\ running_wait
    /\ miner_pc = "wait"
    /\ Len(chain) < max_chain
    /\ now < max_clock
    /\ LET kept == SelectSeq(pending_transactions,
                             LAMBDA tx : now - tx.timestamp <= TX_EXPIRY_SECONDS)
       IN  /\ pending_transactions' = kept
           /\ IF \E j \in 1..Len(kept) : ~FeeDefined(kept[j], utxo_set)
              THEN /\ miner_pc' = "dead"
                   /\ UNCHANGED <<miner_block, miner_selected, now>>
              ELSE LET selected == select_txs(sort_by_fee(kept, <<>>, utxo_set),
                                              utxo_set, <<>>)
                   IN  /\ miner_selected' = selected
                       /\ miner_block' = <<candidate_block(chain, difficulty, selected,
                                              utxo_set, MINER_ADDRESS, now)>>
                       /\ miner_pc' = "built"
                       /\ now' = now + 1
    /\ UNCHANGED <<call, miner_running, chain, utxo_set, tx_index, difficulty, net_vars, handler_vars,
                   sync_vars, peer_chain, wallet_txs>>

MinerBuild == MinerBuildWithin(MaxChain, MaxClock)

\* add_block: validate_block; on failure mine_pending_transactions returns False
\* and the loop sleeps.
MinerValidate ==
    /\ miner_pc = "built"
    /\ IF validate_block(miner_block[1], chain, utxo_set, now)
       THEN /\ miner_pc' = "validated"
            /\ UNCHANGED <<miner_block, miner_selected>>
       ELSE /\ miner_pc' = "wait"
            /\ miner_block' = <<>>
            /\ miner_selected' = <<>>
    /\ utxo_set' = utxo_after_validation(miner_block[1], chain, utxo_set, now)
    /\ UNCHANGED <<call, miner_running, chain, pending_transactions, tx_index, difficulty, net_vars,
                   handler_vars, sync_vars, env_vars>>

\* add_block: the block's transactions applied to the live UTXO set.
MinerApply ==
    /\ miner_pc = "validated"
    /\ utxo_set' = apply_all(miner_block[1].transactions, utxo_set)
    /\ miner_pc' = "applied"
    /\ UNCHANGED <<call, miner_running, chain, pending_transactions, tx_index, difficulty, net_vars,
                   miner_block, miner_selected, handler_vars, sync_vars, env_vars>>

\* add_block: chain.append, the index entries, the difficulty, the save.
MinerAppend ==
    /\ miner_pc = "applied"
    /\ chain' = Append(chain, miner_block[1])
    /\ tx_index' = index_block(miner_block[1], tx_index)
    /\ difficulty' = calculate_next_difficulty(chain', difficulty)
    /\ miner_pc' = "appended"
    /\ UNCHANGED <<call, miner_running, utxo_set, pending_transactions, net_vars, miner_block,
                   miner_selected, handler_vars, sync_vars, env_vars>>

\* mine_pending_transactions after add_block: the selected transactions leave the
\* mempool; then _mining_loop announces the block.
MinerCleanup ==
    /\ miner_pc = "appended"
    /\ pending_transactions' = remove_all(pending_transactions, miner_selected)
    /\ miner_pc' = "wait"
    /\ miner_block' = <<>>
    /\ miner_selected' = <<>>
    /\ UNCHANGED <<call, miner_running, chain, utxo_set, tx_index, difficulty, net_vars, handler_vars,
                   sync_vars, env_vars>>

\* ------------------------------------------- the HTTP handler threads
\* storage.save_peers, which node.py calls and storage.py does not define: what
\* the peers file holds after the call, the peer set it was given.
save_peers(peer_set) == peer_set

\* Node._penalizar_peer as written with the ban one strike late.
_penalizar_peer_late(peer_url, strikes_map) ==
    LET strikes == (IF peer_url \in DOMAIN strikes_map THEN strikes_map[peer_url] ELSE 0) + 1
    IN  [strikes |-> strikes,
         recorded |-> (peer_url :> strikes) @@ strikes_map,
         ban |-> strikes > MAX_PEER_STRIKES]

\* Node._penalizar_peer, the first locked section and the test that follows it:
\* the count read, incremented and stored, and whether this call goes on to ban.
_penalizar_peer(peer_url, strikes_map) ==
    LET strikes == (IF peer_url \in DOMAIN strikes_map THEN strikes_map[peer_url] ELSE 0) + 1
    IN  [strikes |-> strikes,
         recorded |-> (peer_url :> strikes) @@ strikes_map,
         ban |-> strikes >= MAX_PEER_STRIKES]

\* Node.handle_new_block as written with the comparison of indexes left out:
\* every block off the tip starts a synchronisation.
handle_new_block_any_stale(payload, block, blocks, clock) ==
    IF payload.difficulty < blocks[1].difficulty THEN "low_difficulty"
    ELSE IF payload.timestamp > clock + MAX_TIMESTAMP_DRIFT THEN "future_timestamp"
    ELSE IF block.previous_hash = get_latest_block(blocks).hash THEN "add_block"
    ELSE "sync"

\* handle_new_block, what becomes of a payload: dropped by one of the two checks
\* made on the payload, handed to add_block when it extends the tip, a thread
\* started on _sync_chain_from when its index is greater, ignored otherwise.
handle_new_block(payload, block, blocks, clock) ==
    IF payload.difficulty < blocks[1].difficulty THEN "low_difficulty"
    ELSE IF payload.timestamp > clock + MAX_TIMESTAMP_DRIFT THEN "future_timestamp"
    ELSE IF block.previous_hash = get_latest_block(blocks).hash THEN "add_block"
    ELSE IF block.index > get_latest_block(blocks).index THEN "sync"
    ELSE "ignored"

\* handle_new_block up to the call of add_block: block number i of the peer's
\* chain arrives from the peer. A block on the tip goes on to add_block, a block
\* of a greater index starts a thread on _sync_chain_from, anything else is dropped.
HandleNewBlock(h, i) ==
    /\ handler_pc[h] = "idle"
    /\ LET payload == block_to_dict(peer_chain[i])
           block   == block_from_dict(payload, now)
           route   == handle_new_block(payload, block, chain, now)
       IN  /\ route \in {"add_block", "sync"}
           /\ IF route = "add_block"
              THEN /\ handler_pc' = [handler_pc EXCEPT ![h] = "block_received"]
                   /\ handler_arg' = [handler_arg EXCEPT ![h] = <<block>>]
                   /\ UNCHANGED sync_vars
              ELSE /\ sync_pc = "idle"
                   /\ sync_pc' = "started"
                   /\ UNCHANGED <<handler_vars, sync_chain>>
    /\ UNCHANGED <<call, node_vars, net_vars, miner_vars, env_vars>>

\* add_block called by handle_new_block: validate_block; a block refused costs
\* the sender a strike, counted here; the handler keeps the count it stored.
HandlerValidate(h) ==
    /\ handler_pc[h] = "block_received"
    /\ IF validate_block(handler_arg[h][1], chain, utxo_set, now)
       THEN /\ handler_pc' = [handler_pc EXCEPT ![h] = "block_validated"]
            /\ UNCHANGED <<handler_arg, peer_strikes>>
       ELSE /\ handler_pc' = [handler_pc EXCEPT ![h] = "struck"]
            /\ handler_arg' = [handler_arg EXCEPT ![h] =
                                  <<_penalizar_peer(PEER_URL, peer_strikes)>>]
            /\ peer_strikes' = _penalizar_peer(PEER_URL, peer_strikes).recorded
    /\ utxo_set' = utxo_after_validation(handler_arg[h][1], chain, utxo_set, now)
    /\ UNCHANGED <<call, chain, pending_transactions, tx_index, difficulty, peers, peers_on_disk,
                   overlay, miner_vars,
                   sync_vars, env_vars>>

\* _penalizar_peer, the second locked section: when the count this call stored
\* reached MAX_PEER_STRIKES the peer leaves the peer set and its counter goes.
HandlerBan(h) ==
    /\ handler_pc[h] = "struck"
    /\ IF handler_arg[h][1].ban
       THEN /\ peers' = peers \ {PEER_URL}
            /\ peers_on_disk' = save_peers(peers')
            /\ UNCHANGED overlay
            /\ peer_strikes' = [u \in (DOMAIN peer_strikes) \ {PEER_URL} |-> peer_strikes[u]]
       ELSE UNCHANGED net_vars
    /\ handler_pc' = [handler_pc EXCEPT ![h] = "idle"]
    /\ handler_arg' = [handler_arg EXCEPT ![h] = <<>>]
    /\ UNCHANGED <<call, node_vars, miner_vars, sync_vars, env_vars>>

HandlerApply(h) ==
    /\ handler_pc[h] = "block_validated"
    /\ utxo_set' = apply_all(handler_arg[h][1].transactions, utxo_set)
    /\ handler_pc' = [handler_pc EXCEPT ![h] = "block_applied"]
    /\ UNCHANGED <<call, chain, pending_transactions, tx_index, difficulty, net_vars,
                   miner_vars, handler_arg, sync_vars, env_vars>>

\* The rest of add_block, then the sender's strikes reset and the block relayed.
HandlerAppend(h) ==
    /\ handler_pc[h] = "block_applied"
    /\ chain' = Append(chain, handler_arg[h][1])
    /\ tx_index' = index_block(handler_arg[h][1], tx_index)
    /\ difficulty' = calculate_next_difficulty(chain', difficulty)
    /\ peer_strikes' = (PEER_URL :> 0) @@ peer_strikes
    /\ handler_pc' = [handler_pc EXCEPT ![h] = "idle"]
    /\ handler_arg' = [handler_arg EXCEPT ![h] = <<>>]
    /\ UNCHANGED <<call, utxo_set, pending_transactions, peers, peers_on_disk, overlay, miner_vars,
                   sync_vars,
                   env_vars>>

\* handle_new_tx and POST /transactions/new: from_dict, then add_transaction up
\* to its last check.
HandleNewTx(h, tx) ==
    /\ handler_pc[h] = "idle"
    /\ LET received == tx_from_dict(tx_to_dict(tx), now)
       IN  /\ handler_arg' = [handler_arg EXCEPT ![h] = <<received>>]
           /\ handler_pc' = [handler_pc EXCEPT ![h] =
                  IF add_transaction_accepts(received, utxo_set, pending_transactions)
                  THEN "tx_accepted" ELSE "tx_rejected"]
    /\ UNCHANGED <<call, node_vars, net_vars, miner_vars, sync_vars, env_vars>>

\* add_transaction: pending_transactions.append and the save; or the return of
\* False, which leaves the mempool alone.
HandlerTxReturn(h) ==
    /\ handler_pc[h] \in {"tx_accepted", "tx_rejected"}
    /\ pending_transactions' =
           IF handler_pc[h] = "tx_accepted"
           THEN Append(pending_transactions, handler_arg[h][1])
           ELSE pending_transactions
    /\ handler_pc' = [handler_pc EXCEPT ![h] = "idle"]
    /\ handler_arg' = [handler_arg EXCEPT ![h] = <<>>]
    /\ UNCHANGED <<call, chain, utxo_set, tx_index, difficulty, net_vars, miner_vars,
                   sync_vars, env_vars>>

\* ------------------------------------------------- synchronisation
\* _adopt_chain: the first position at which the two chains' hashes differ,
\* counted from 0; min of the lengths when none does.
fork_index(vieja, new_chain) ==
    LET n == Min(Len(vieja), Len(new_chain))
        differ == {i \in 0..(n - 1) : vieja[i + 1].hash # new_chain[i + 1].hash}
    IN  IF differ = {} THEN n
        ELSE CHOOSE i \in differ : \A j \in differ : i <= j

\* The transactions of blocks[fork:], block by block, in order.
RECURSIVE txs_from(_, _)
txs_from(blocks, fork) ==
    IF fork >= Len(blocks) THEN <<>>
    ELSE blocks[fork + 1].transactions \o txs_from(blocks, fork + 1)

\* _adopt_chain: txs_en_nueva, the ids of the non-coinbase transactions of
\* new_chain[fork_index:].
txs_en_nueva(new_chain, fork) ==
    LET txs == txs_from(new_chain, fork)
    IN  {txs[j].id : j \in {k \in 1..Len(txs) : ~is_coinbase(txs[k])}}

\* _adopt_chain: the transactions of vieja[fork_index:] that go back to the mempool.
txs_recuperadas(vieja, new_chain) ==
    LET fork == fork_index(vieja, new_chain)
    IN  SelectSeq(txs_from(vieja, fork),
                  LAMBDA tx : ~is_coinbase(tx) /\ tx.id \notin txs_en_nueva(new_chain, fork))

\* connect_to_peer: the handshake is answered, the peer is recorded, the peer
\* set is saved, and _sync_chain_from starts.
Connect ==
    /\ PEER_URL \notin peers
    /\ sync_pc = "idle"
    /\ peers' = peers \cup {PEER_URL}
    /\ peers_on_disk' = save_peers(peers')
    /\ sync_pc' = "started"
    /\ UNCHANGED <<call, node_vars, peer_strikes, overlay, miner_vars, handler_vars,
                   sync_chain, env_vars>>

\* _sync_chain_from as written with a chain longer by one block left alone.
SyncCheckByTwo ==
    /\ sync_pc = "started"
    /\ LET chain_data == [i \in 1..Len(peer_chain) |-> block_to_dict(peer_chain[i])]
           new_chain  == [i \in 1..Len(chain_data) |-> block_from_dict(chain_data[i], now)]
       IN  IF /\ Len(chain_data) > Len(chain) + 1
              /\ chain_data[1].difficulty = chain[1].difficulty
              /\ \A i \in 2..Len(chain_data) :
                    chain_data[i].difficulty >= chain_data[1].difficulty
              /\ validate_chain(new_chain, now)
           THEN /\ sync_pc' = "validated"
                /\ sync_chain' = new_chain
           ELSE /\ sync_pc' = "idle"
                /\ sync_chain' = <<>>
    /\ UNCHANGED <<call, node_vars, net_vars, miner_vars, handler_vars, env_vars>>

\* _sync_chain_from and _adopt_chain up to rebuild_utxo_set: the peer's chain is
\* fetched, compared in length with the local one, checked against the genesis
\* difficulty, decoded and validated.
SyncCheck ==
    /\ sync_pc = "started"
    /\ LET chain_data == [i \in 1..Len(peer_chain) |-> block_to_dict(peer_chain[i])]
           new_chain  == [i \in 1..Len(chain_data) |-> block_from_dict(chain_data[i], now)]
       IN  IF /\ Len(chain_data) > Len(chain)
              /\ chain_data[1].difficulty = chain[1].difficulty
              /\ \A i \in 2..Len(chain_data) :
                    chain_data[i].difficulty >= chain_data[1].difficulty
              /\ validate_chain(new_chain, now)
           THEN /\ sync_pc' = "validated"
                /\ sync_chain' = new_chain
           ELSE /\ sync_pc' = "idle"
                /\ sync_chain' = <<>>
    /\ UNCHANGED <<call, node_vars, net_vars, miner_vars, handler_vars, env_vars>>

\* _adopt_chain, the reorg loop: the transactions of the local blocks from the
\* fork on that the received chain does not confirm are appended to the mempool.
SyncReinject ==
    /\ sync_pc = "validated"
    /\ pending_transactions' = pending_transactions \o txs_recuperadas(chain, sync_chain)
    /\ sync_pc' = "reinjected"
    /\ UNCHANGED <<call, chain, utxo_set, tx_index, difficulty, net_vars, miner_vars,
                   handler_vars, sync_chain, env_vars>>

\* The end of _adopt_chain: the chain and the UTXO set replaced, then the save.
\* The index and the difficulty stay as they were.
SyncReplace ==
    /\ sync_pc = "reinjected"
    /\ chain' = sync_chain
    /\ utxo_set' = rebuild_utxo_set(sync_chain)
    /\ sync_pc' = "idle"
    /\ sync_chain' = <<>>
    /\ UNCHANGED <<call, pending_transactions, tx_index, difficulty, net_vars, miner_vars,
                   handler_vars, env_vars>>

\* ------------------------------------------------- the environment
\* The peer, a node running the same code, mines a block on its chain, with at
\* most one of the signed transactions it has heard of.
PeerMine(included) ==
    /\ Len(peer_chain) < MaxChain
    /\ now < MaxClock
    /\ LET peer_utxo == rebuild_utxo_set(peer_chain)
           selected  == select_txs(included, peer_utxo, <<>>)
       IN  /\ selected = included
           /\ peer_chain' = Append(peer_chain,
                  candidate_block(peer_chain, NODE_DIFFICULTY, selected, peer_utxo,
                                  PEER_MINER, now))
    /\ now' = now + 1
    /\ UNCHANGED <<call, node_vars, net_vars, miner_vars, handler_vars, sync_vars, wallet_txs>>

\* The peer fetches this node's chain and, by the same _sync_chain_from and
\* _adopt_chain, takes it when it is longer and valid.
PeerSync ==
    /\ Len(chain) > Len(peer_chain)
    /\ chain[1].difficulty = peer_chain[1].difficulty
    /\ validate_chain(chain, now)
    /\ peer_chain' = chain
    /\ UNCHANGED <<call, node_vars, net_vars, miner_vars, handler_vars, sync_vars,
                   wallet_txs, now>>

\* A wallet spends one output it owns, of this node's UTXO set or of the peer's:
\* Transaction(...), then sign. The wallet stops at limit transactions.
CreateTx(key, amount, owner, recipient, fee, limit) ==
    /\ Cardinality(wallet_txs) < limit
    /\ owner \in Wallets
    /\ amount >= fee
    /\ wallet_txs' = wallet_txs \cup
          {sign(NewTransaction(
                   <<[tx_id |-> key[1], output_index |-> key[2], signature |-> NoSig]>>,
                   <<[amount |-> amount - fee, recipient_public_key |-> recipient]>>,
                   0, now), owner)}
    /\ UNCHANGED <<call, node_vars, net_vars, miner_vars, handler_vars, sync_vars, peer_chain,
                   now>>

Spendable == utxo_set @@ rebuild_utxo_set(peer_chain)

\* A second request is served by h2 while h1 is busy.
Busy(h) == handler_pc[h] # "idle"

MinerStep ==
    \/ MinerBuild
    \/ MinerValidate
    \/ MinerApply
    \/ MinerAppend
    \/ MinerCleanup

TxStep ==
    \/ \E tx \in wallet_txs : HandleNewTx("h1", tx)
    \/ \E tx \in wallet_txs : Busy("h1") /\ HandleNewTx("h2", tx)
    \/ \E h \in Handlers : HandlerTxReturn(h)

BlockStep ==
    \/ \E i \in 2..Len(peer_chain) : HandleNewBlock("h1", i)
    \/ HandlerValidate("h1")
    \/ HandlerBan("h1")
    \/ HandlerApply("h1")
    \/ HandlerAppend("h1")

SyncStep ==
    \/ Connect
    \/ SyncCheck
    \/ SyncReinject
    \/ SyncReplace

PeerStep ==
    \/ \E included \in {<<>>} \cup {<<tx>> : tx \in wallet_txs} : PeerMine(included)
    \/ PeerSync

WalletStep(limit) ==
    \E key \in DOMAIN Spendable : \E recipient \in Recipients : \E fee \in Fees :
        CreateTx(key, Spendable[key].amount, Spendable[key].recipient_public_key,
                 recipient, fee, limit)

Next == MinerStep \/ TxStep \/ BlockStep \/ SyncStep \/ PeerStep \/ WalletStep(MaxTx)

Spec == Init /\ [][Next]_vars

\* The node alone: no peer is heard of, wallets submit up to MaxLocalTx transactions.
NextLocal == MinerStep \/ TxStep \/ WalletStep(MaxLocalTx)

SpecLocal == Init /\ [][NextLocal]_vars


\* ------------------------------------------------- a peer that forges
\* POST /p2p/block, POST /p2p/tx and the answer to GET /p2p/chain carry
\* whatever the other side wrote: the payload is JSON, rebuilt by from_dict. The
\* menu below lists the blocks such a peer builds on this node's own chain.
ForgeKinds == {"honest", "second_coinbase", "two_outputs", "old_timestamp",
               "overstated_difficulty", "no_transactions", "bad_amount",
               "stale_hash", "low_difficulty"}

pay(amount, recipient) == [amount |-> amount, recipient_public_key |-> recipient]

forged_block(kind, blocks, target, clock) ==
    LET tip      == get_latest_block(blocks)
        reward   == coins(get_mining_reward(Len(blocks)))
        coinbase == NewTransaction(<<>>, <<pay(reward, PEER_MINER)>>, 0, clock)
        extra    == NewTransaction(<<>>, <<pay(GENESIS_AMOUNT, PEER_MINER)>>, 0, clock)
        honest   == NewBlock(Len(blocks), clock, <<coinbase>>, tip.hash, target)
        unmined(transactions, timestamp, declared) ==
            [index |-> Len(blocks), timestamp |-> timestamp,
             transactions |-> transactions, previous_hash |-> tip.hash,
             difficulty |-> declared, nonce |-> target, hash |-> ZERO_HASH]
        hashed(b) == [b EXCEPT !.hash = calculate_hash(b)]
    IN  CASE kind = "honest" -> honest
          [] kind = "second_coinbase" ->
                NewBlock(Len(blocks), clock, <<coinbase, extra>>, tip.hash, target)
          [] kind = "two_outputs" ->
                NewBlock(Len(blocks), clock,
                         <<NewTransaction(<<>>, <<pay(reward, PEER_MINER),
                                                  pay(GENESIS_AMOUNT, PEER_MINER)>>,
                                          0, clock)>>,
                         tip.hash, target)
          [] kind = "old_timestamp" ->
                NewBlock(Len(blocks), tip.timestamp - 1, <<coinbase>>, tip.hash, target)
          [] kind = "overstated_difficulty" ->
                hashed(unmined(<<coinbase>>, clock, target + 1))
          [] kind = "no_transactions" ->
                NewBlock(Len(blocks), clock, <<>>, tip.hash, target)
          [] kind = "bad_amount" ->
                NewBlock(Len(blocks), clock,
                         <<NewTransaction(<<>>, <<pay(reward + 1, PEER_MINER)>>, 0, clock),
                           extra>>,
                         tip.hash, target)
          [] kind = "stale_hash" ->
                [honest EXCEPT !.transactions =
                    <<[coinbase EXCEPT !.outputs = <<pay(reward, "bob")>>]>>]
          [] kind = "low_difficulty" ->
                hashed(unmined(<<coinbase>>, clock, target - 1))

\* The peer holds this node's chain with one block of the menu on top.
PeerForge(kind) ==
    /\ Len(chain) < MaxChain
    /\ now < MaxClock
    /\ peer_chain' = Append(chain, forged_block(kind, chain, chain[1].difficulty, now))
    /\ now' = now + 1
    /\ UNCHANGED <<call, node_vars, net_vars, miner_vars, handler_vars, sync_vars, wallet_txs>>

\* A client writes a transaction payload by hand: no inputs, no outputs, and the
\* "id" field either the digest of the content or the digest of something else.
TxForgeKinds == {"empty", "forged_id"}

forged_tx(kind, clock) ==
    LET empty == NewTransaction(<<>>, <<>>, 0, clock)
    IN  IF kind = "empty" THEN empty
        ELSE [empty EXCEPT !.id = calculate_id([inputs |-> <<>>, outputs |-> <<>>,
                                                timestamp |-> clock + 1])]

ForgeTx(kind) ==
    /\ Cardinality(wallet_txs) < MaxTx
    /\ wallet_txs' = wallet_txs \cup {forged_tx(kind, now)}
    /\ UNCHANGED <<call, node_vars, net_vars, miner_vars, handler_vars, sync_vars, peer_chain,
                   now>>

\* The node with its miner stopped (POST /mining/stop), facing the forging peer.
NextForge == BlockStep \/ SyncStep \/ (\E kind \in ForgeKinds : PeerForge(kind))

SpecForge == Init /\ [][NextForge]_vars

\* The node alone with its miner and clients, one of which writes payloads by hand.
NextClient ==
    MinerStep \/ TxStep \/ WalletStep(MaxTx) \/ (\E kind \in TxForgeKinds : ForgeTx(kind))

SpecClient == Init /\ [][NextClient]_vars


\* ------------------------------------------------- Transaction.verify on its own
\* The transactions: up to two inputs over two keys (the same key twice
\* included), one output, signed by one owner with Transaction.sign, left
\* unsigned, or with the output rewritten after signing.
VerifyKeys == {<<"t1", 0>>, <<"t2", 0>>}

unsigned_tx(keys, amount) ==
    NewTransaction([i \in 1..Len(keys) |->
                       [tx_id |-> keys[i][1], output_index |-> keys[i][2],
                        signature |-> NoSig]],
                   <<pay(amount, "bob")>>, 1, 1)

VerifyTxs ==
    LET inputs  == {<<>>} \cup {<<k>> : k \in VerifyKeys}
                          \cup {<<k, l>> : k \in VerifyKeys, l \in VerifyKeys}
        amounts == {0, 2, 4}
        owners  == {"bob", MINER_ADDRESS}
    IN  {unsigned_tx(keys, amount) : keys \in inputs, amount \in amounts}
        \cup {sign(unsigned_tx(keys, amount), owner) :
                 keys \in inputs, amount \in amounts, owner \in owners}
        \cup {[sign(unsigned_tx(keys, amount + 1), owner) EXCEPT
                  !.outputs = <<pay(amount, "bob")>>] :
                 keys \in inputs, amount \in amounts, owner \in owners}

\* The UTXO views: each key absent, or present with an amount and an owner.
VerifyViews ==
    UNION {[present -> {pay(amount, owner) : amount \in {1, 3},
                                             owner \in {"bob", MINER_ADDRESS}}] :
              present \in SUBSET VerifyKeys}

\* No node is running: a function is called on arguments of its own.
Standalone ==
    /\ chain = <<genesis_block(NODE_DIFFICULTY, 1)>>
    /\ utxo_set = apply_transaction(genesis_block(NODE_DIFFICULTY, 1).transactions[1],
                                    EmptyUtxo)
    /\ pending_transactions = <<>>
    /\ tx_index = [k \in {} |-> 0]
    /\ difficulty = NODE_DIFFICULTY
    /\ peers = {}
    /\ peers_on_disk = {}
    /\ overlay = [peers |-> [n \in Nodes |-> {}], tasks |-> {}, connected |-> {}]
    /\ peer_strikes = [k \in {} |-> 0]
    /\ miner_pc = "wait"
    /\ miner_block = <<>>
    /\ miner_selected = <<>>
    /\ miner_running = TRUE
    /\ handler_pc = [h \in Handlers |-> "idle"]
    /\ handler_arg = [h \in Handlers |-> <<>>]
    /\ sync_pc = "idle"
    /\ sync_chain = <<>>
    /\ peer_chain = <<>>
    /\ wallet_txs = {}
    /\ now = 1

InitVerify ==
    /\ Standalone
    /\ call \in {[op |-> "arguments", tx |-> tx, view |-> view,
                  view_after |-> view, result |-> <<>>] :
                    tx \in VerifyTxs, view \in VerifyViews}

VerifyCall ==
    /\ call.op = "arguments"
    /\ call' = [call EXCEPT !.op = "verify",
                            !.result = <<verify(call.tx, call.view)>>,
                            !.view_after = view_after_verify(call.tx, call.view)]
    /\ UNCHANGED <<node_vars, net_vars, miner_vars, handler_vars, sync_vars, env_vars>>

SpecVerify == InitVerify /\ [][VerifyCall]_vars


\* ------------------------------------------------- to_dict and from_dict on their own
\* t.timestamp = timestamp, then t.id = t.calculate_id().
stamped(tx, timestamp) ==
    [tx EXCEPT !.timestamp = timestamp,
               !.id = calculate_id([tx EXCEPT !.timestamp = timestamp])]

WireClock == 5

\* The transactions of VerifyTxs, as they are and with timestamp 0, each alone
\* and as the second transaction of a block of timestamp 0 or 1.
InitWire ==
    /\ Standalone
    /\ call \in {[op |-> "arguments", tx |-> tx,
                  block |-> NewBlock(1, timestamp,
                                     <<NewTransaction(<<>>, <<pay(INITIAL_REWARD, "bob")>>,
                                                      1, 1), tx>>,
                                     ZERO_HASH, NODE_DIFFICULTY),
                  tx_back |-> <<>>, block_back |-> <<>>] :
                    tx \in VerifyTxs \cup {stamped(t, 0) : t \in VerifyTxs},
                    timestamp \in {0, 1}}

WireRoundTrip ==
    /\ call.op = "arguments"
    /\ call' = [call EXCEPT
                  !.op = "from_dict",
                  !.tx_back = <<tx_from_dict(tx_to_dict(call.tx), WireClock)>>,
                  !.block_back = <<block_from_dict(block_to_dict(call.block), WireClock)>>]
    /\ UNCHANGED <<node_vars, net_vars, miner_vars, handler_vars, sync_vars, env_vars>>

SpecWire == InitWire /\ [][WireRoundTrip]_vars


\* ------------------------------------------------- TxInput.sign on its own
\* One input of a transaction of VerifyTxs, signed or not, is signed by an owner.
InitSign ==
    /\ Standalone
    /\ call \in {[op |-> "arguments", tx |-> tx, input |-> i, owner |-> owner,
                  tx_after |-> tx] :
                    tx \in VerifyTxs, i \in 1..2, owner \in {"bob", MINER_ADDRESS}}

\* inp.sign(tx.hash_for_signature(), private_key) on input number call.input.
SignInput ==
    /\ call.op = "arguments"
    /\ call.input <= Len(call.tx.inputs)
    /\ call' = [call EXCEPT
                  !.op = "sign",
                  !.tx_after = [call.tx EXCEPT !.inputs[call.input].signature =
                                   Sig(call.owner, hash_for_signature(call.tx))]]
    /\ UNCHANGED <<node_vars, net_vars, miner_vars, handler_vars, sync_vars, env_vars>>

SpecSign == InitSign /\ [][SignInput]_vars


\* ------------------------------------------------- get_mining_reward on its own
MaxRewardIndex == 640

InitReward ==
    /\ Standalone
    /\ call \in {[op |-> "arguments", block_index |-> i, reward |-> <<>>,
                  reward_before |-> <<>>] : i \in 0..MaxRewardIndex}

\* get_mining_reward(block_index), and get_mining_reward(block_index - 1) to
\* compare it with.
RewardCall ==
    /\ call.op = "arguments"
    /\ call' = [call EXCEPT
                  !.op = "get_mining_reward",
                  !.reward = <<get_mining_reward(call.block_index)>>,
                  !.reward_before = IF call.block_index = 0 THEN <<>>
                                    ELSE <<get_mining_reward(call.block_index - 1)>>]
    /\ UNCHANGED <<node_vars, net_vars, miner_vars, handler_vars, sync_vars, env_vars>>

SpecReward == InitReward /\ [][RewardCall]_vars


\* ------------------------------------------------- calculate_next_difficulty on its own
MaxRetargetDifficulty == 6

\* Chains of which the function reads the length and two timestamps: the last
\* block's is span seconds after that of the block DIFFICULTY_INTERVAL - 1
\* places before it, every other block being at the start of the span.
InitRetarget ==
    /\ Standalone
    /\ call \in {[op |-> "arguments",
                  chain |-> [k \in 1..len |-> [timestamp |-> IF k = len THEN span ELSE 0]],
                  span |-> span, difficulty |-> d, next |-> d] :
                    len \in {1, DIFFICULTY_INTERVAL - 1, DIFFICULTY_INTERVAL,
                             DIFFICULTY_INTERVAL + 1, 2 * DIFFICULTY_INTERVAL},
                    span \in {-30, 0, 75, 120, 150, 200, 300, 400, 450, 600, 601, 1200},
                    d \in 1..MaxRetargetDifficulty}

RetargetCall ==
    /\ call.op = "arguments"
    /\ call' = [call EXCEPT
                  !.op = "calculate_next_difficulty",
                  !.next = calculate_next_difficulty(call.chain, call.difficulty)]
    /\ UNCHANGED <<node_vars, net_vars, miner_vars, handler_vars, sync_vars, env_vars>>

SpecRetarget == InitRetarget /\ [][RetargetCall]_vars


\* Two processes start at some time of the clock each, with a difficulty each,
\* and construct their Blockchain: no saved chain, so create_genesis_block.
Difficulties == {1, 2}

InitGenesis ==
    /\ chain = <<>>
    /\ utxo_set = EmptyUtxo
    /\ pending_transactions = <<>>
    /\ tx_index = [k \in {} |-> 0]
    /\ difficulty \in Difficulties
    /\ peers = {}
    /\ peers_on_disk = {}
    /\ overlay = [peers |-> [n \in Nodes |-> {}], tasks |-> {}, connected |-> {}]
    /\ peer_strikes = [k \in {} |-> 0]
    /\ miner_pc = "wait"
    /\ miner_block = <<>>
    /\ miner_selected = <<>>
    /\ miner_running = TRUE
    /\ handler_pc = [h \in Handlers |-> "idle"]
    /\ handler_arg = [h \in Handlers |-> <<>>]
    /\ sync_pc = "idle"
    /\ sync_chain = <<>>
    /\ peer_chain = <<>>
    /\ wallet_txs = {}
    /\ now = 1
    /\ call = <<>>

Tick ==
    /\ now < MaxGenesisClock
    /\ now' = now + 1
    /\ UNCHANGED <<call, node_vars, net_vars, miner_vars, handler_vars, sync_vars,
                   peer_chain, wallet_txs>>

\* Blockchain.__init__(difficulty) of this node.
StartNode ==
    /\ chain = <<>>
    /\ chain' = <<genesis_block(difficulty, now)>>
    /\ utxo_set' = apply_transaction(genesis_block(difficulty, now).transactions[1],
                                     utxo_set)
    /\ UNCHANGED <<call, pending_transactions, tx_index, difficulty, net_vars, miner_vars,
                   handler_vars, sync_vars, env_vars>>

\* Blockchain.__init__(peer_difficulty) of the other node.
StartPeer(peer_difficulty) ==
    /\ peer_chain = <<>>
    /\ peer_chain' = <<genesis_block(peer_difficulty, now)>>
    /\ UNCHANGED <<call, node_vars, net_vars, miner_vars, handler_vars, sync_vars,
                   wallet_txs, now>>

NextGenesis ==
    \/ Tick
    \/ StartNode
    \/ \E peer_difficulty \in Difficulties : StartPeer(peer_difficulty)

SpecGenesis == InitGenesis /\ [][NextGenesis]_vars

\* ============================================================ properties
\* No thread is inside an operation on the chain state.
Quiescent ==
    /\ miner_pc \in {"wait", "dead"}
    /\ \A h \in Handlers : handler_pc[h] = "idle"
    /\ sync_pc = "idle"

\* The threads that have begun an operation on the chain state and not ended it:
\* add_block between its validation and its append, add_transaction between its
\* checks and its append, _adopt_chain between its re-injection and its replacement.
MidOperation ==
    {t \in {"miner"} : miner_pc \in {"validated", "applied"}}
    \cup {h \in Handlers :
            handler_pc[h] \in {"block_validated", "block_applied", "tx_accepted"}}
    \cup {t \in {"sync"} : sync_pc = "reinjected"}

SpentKeys(tx) == {TxKey(tx.inputs[i]) : i \in 1..Len(tx.inputs)}

\* C1: every block after the first names its predecessor's hash as previous_hash
\* and carries its own position as index.
C1_ChainLinked ==
    \A i \in 2..Len(chain) :
        /\ chain[i].previous_hash = chain[i - 1].hash
        /\ chain[i].index = i - 1

\* C2: at no time are two threads inside operations on the chain state.
C2_OperationsExclusive == Cardinality(MidOperation) <= 1

\* C3: when no operation is mid-execution, the live UTXO set is the replay of
\* the chain from an empty map.
C3_UtxoIsReplay == Quiescent => utxo_set = rebuild_utxo_set(chain)

\* C4: no two distinct transactions of the mempool spend the same UTXO key.
C4_NoMempoolDoubleSpend ==
    \A i, j \in 1..Len(pending_transactions) :
        pending_transactions[i] # pending_transactions[j]
            => SpentKeys(pending_transactions[i]) \cap SpentKeys(pending_transactions[j]) = {}

\* C5: when no operation is mid-execution, every input of every mempool
\* transaction is a key of the UTXO set.
C5_MempoolInputsResolve ==
    Quiescent =>
        \A i \in 1..Len(pending_transactions) :
            SpentKeys(pending_transactions[i]) \subseteq DOMAIN utxo_set

\* C6: a call of add_transaction with an input that a mempool transaction
\* already spends, or that is not in the UTXO set, is refused, and its return
\* leaves the mempool as it was.
C6_RejectsLockedOrAbsent ==
    [][\A h \in Handlers :
          /\ (handler_pc[h] = "idle" /\ handler_pc'[h] \in {"tx_accepted", "tx_rejected"})
                => ((\E k \in SpentKeys(handler_arg'[h][1]) :
                        \/ k \notin DOMAIN utxo_set
                        \/ k \in get_locked_utxos(pending_transactions))
                      => /\ handler_pc'[h] = "tx_rejected"
                         /\ pending_transactions' = pending_transactions)
          /\ (handler_pc[h] = "tx_rejected" /\ handler_pc'[h] = "idle")
                => pending_transactions' = pending_transactions]_vars

\* A transaction has been refused while another transaction, admitted before and
\* still pending, spends one of its inputs.
C6_SecondSpendRefused ==
    \E h \in Handlers :
        /\ handler_pc[h] = "tx_rejected"
        /\ \E i \in 1..Len(pending_transactions) :
              /\ pending_transactions[i] # handler_arg[h][1]
              /\ SpentKeys(pending_transactions[i]) \cap SpentKeys(handler_arg[h][1]) # {}

\* C7: the mempool never holds more than MAX_MEMPOOL_SIZE transactions.
C7_MempoolCapped == Len(pending_transactions) <= MAX_MEMPOOL_SIZE

\* C8: the chain never gets shorter, and the replacement of _adopt_chain puts a
\* chain in place that is strictly longer than the one it replaces.
C8_OnlyLongerChainAdopted ==
    [][/\ Len(chain') >= Len(chain)
       /\ (sync_pc = "reinjected" /\ sync_pc' = "idle") => Len(chain') > Len(chain)]_vars

\* The non-coinbase transactions of the blocks of vieja from the fork on whose
\* ids new_chain does not confirm from the fork on.
Orphaned(vieja, new_chain) ==
    LET fork == fork_index(vieja, new_chain)
        txs  == txs_from(vieja, fork)
    IN  {txs[k] : k \in {n \in 1..Len(txs) :
                           /\ ~is_coinbase(txs[n])
                           /\ txs[n].id \notin txs_en_nueva(new_chain, fork)}}

InMempool(pending) == {pending[i] : i \in 1..Len(pending)}

\* C9: the re-injection of a chain adoption appends no coinbase and no
\* transaction that the received chain confirms from the fork on; and when the
\* chain is replaced, every non-coinbase transaction of the local blocks from the
\* fork on that the received chain does not confirm and whose inputs are in the
\* new UTXO set is in the mempool.
C9_OrphansBackInMempool ==
    [][/\ (sync_pc = "validated" /\ sync_pc' = "reinjected")
            => \A n \in (Len(pending_transactions) + 1)..Len(pending_transactions') :
                  /\ ~is_coinbase(pending_transactions'[n])
                  /\ pending_transactions'[n].id
                        \notin txs_en_nueva(sync_chain, fork_index(chain, sync_chain))
       /\ (sync_pc = "reinjected" /\ sync_pc' = "idle")
            => \A tx \in Orphaned(chain, chain') :
                  SpentKeys(tx) \subseteq DOMAIN utxo_set'
                      => tx \in InMempool(pending_transactions')]_vars

\* Two nodes constructed with the same difficulty at different times of the clock.
C10_SameDifficultyOtherTime ==
    /\ chain # <<>>
    /\ peer_chain # <<>>
    /\ chain[1].difficulty = peer_chain[1].difficulty
    /\ chain[1].transactions[1].timestamp # peer_chain[1].transactions[1].timestamp

\* C10: two nodes constructed with the same difficulty hold the same genesis
\* block: the same hash and the same id of its transaction.
C10_GenesisIdentical ==
    (/\ chain # <<>>
     /\ peer_chain # <<>>
     /\ chain[1].difficulty = peer_chain[1].difficulty)
        => /\ chain[1].hash = peer_chain[1].hash
           /\ chain[1].transactions[1].id = peer_chain[1].transactions[1].id

\* C11: every block that validate_block accepts on top of a chain that
\* validate_chain accepts gives, once appended, a chain that validate_chain
\* accepts: add_block never takes a valid chain to an invalid one.
C11_AcceptedBlockKeepsChainValid ==
    [][\A h \in Handlers :
          (/\ handler_pc[h] = "block_received"
           /\ handler_pc'[h] = "block_validated"
           /\ validate_chain(chain, now))
              => validate_chain(Append(chain, handler_arg[h][1]), now)]_vars

\* C12: every block of the node's chain, appended by add_block or installed by
\* chain adoption, has a hash equal to the digest of its header view: a chain
\* with a block altered after its hash was computed is never adopted.
C12_HashesMatchHeaders ==
    \A i \in 1..Len(chain) : chain[i].hash = calculate_hash(chain[i])

\* C13: every non-genesis block of the node's chain has a hash with at least
\* block.difficulty leading zeros, and a declared difficulty not below the
\* genesis difficulty.
C13_ProofOfWorkMeetsDeclared ==
    \A i \in 2..Len(chain) :
        /\ StartsWithZeros(chain[i].hash, chain[i].difficulty)
        /\ chain[i].difficulty >= chain[1].difficulty

\* C14: every non-genesis block of the node's chain has a coinbase as its first
\* transaction and no other transaction without inputs.
C14_OneCoinbaseFirst ==
    \A i \in 2..Len(chain) :
        /\ Len(chain[i].transactions) >= 1
        /\ is_coinbase(chain[i].transactions[1])
        /\ \A j \in 2..Len(chain[i].transactions) :
              ~is_coinbase(chain[i].transactions[j])

\* C15: the coinbase of every non-genesis block of the node's chain has exactly
\* one output, whose amount is reward(block.index) plus the fees of the block's
\* other transactions, verified in order on the UTXO set of the blocks before it.
C15_CoinbaseIsRewardPlusFees ==
    \A i \in 2..Len(chain) :
        LET transactions == chain[i].transactions
            others == verify_all(Tail(transactions),
                                 rebuild_utxo_set(SubSeq(chain, 1, i - 1)), 0)
        IN  (Len(transactions) >= 1 /\ is_coinbase(transactions[1]))
                => /\ Len(transactions[1].outputs) = 1
                   /\ others.ok
                   /\ transactions[1].outputs[1].amount
                         = coins(get_mining_reward(chain[i].index)) + others.fees

\* C16: block timestamps never decrease along the node's chain.
C16_TimestampsNonDecreasing ==
    \A i \in 2..Len(chain) : chain[i].timestamp >= chain[i - 1].timestamp

\* A block of the peer that goes through the loop of validate_block, with a
\* transaction applied to the view, and then fails, has been refused: the
\* sender has its strike and the handler is back.
C17_ForgedBlockRefused ==
    /\ handler_pc["h1"] = "idle"
    /\ PEER_URL \in DOMAIN peer_strikes
    /\ peer_strikes[PEER_URL] > 0
    /\ Len(peer_chain) = Len(chain) + 1
    /\ LET block == peer_chain[Len(peer_chain)]
       IN  /\ block.previous_hash = get_latest_block(chain).hash
           /\ Len(block.transactions) >= 2
           /\ ~validate_block(block, chain, utxo_set, now)
           /\ utxo_after_validation_live(block, chain, utxo_set, now) # utxo_set

\* C17: when add_block returns false, chain, live UTXO set, mempool, tx_index
\* and difficulty are what they were before the call.
C17_RejectedBlockChangesNothing ==
    [][\A h \in Handlers :
          (handler_pc[h] = "block_received" /\ handler_pc'[h] = "struck")
              => UNCHANGED node_vars]_vars

\* C18: every transaction held in the mempool or in a block of the chain has an
\* id equal to the digest of its signable view.
C18_IdsAreContentDigests ==
    /\ \A n \in 1..Len(pending_transactions) :
          pending_transactions[n].id = calculate_id(pending_transactions[n])
    /\ \A i \in 1..Len(chain) : \A j \in 1..Len(chain[i].transactions) :
          chain[i].transactions[j].id = calculate_id(chain[i].transactions[j])

\* C19: for every transaction id of a non-genesis block of the chain or of the
\* index, get_transaction returns (tx, i) exactly when block i of the current
\* chain holds a transaction with that id, and (None, None) otherwise.
C19_IndexMatchesChain ==
    LET held == UNION {{chain[i].transactions[j].id :
                            j \in 1..Len(chain[i].transactions)} : i \in 2..Len(chain)}
        holders(t) == {i \in 1..Len(chain) :
                          \E j \in 1..Len(chain[i].transactions) :
                              chain[i].transactions[j].id = t}
    IN  \A t \in held \cup DOMAIN tx_index :
            LET answer == get_transaction(t, tx_index, chain)
            IN  /\ ~answer.raised
                /\ IF holders(t) = {} THEN answer.found = <<>>
                   ELSE /\ answer.found # <<>>
                        /\ answer.found[1].tx.id = t
                        /\ answer.found[1].block_index + 1 \in holders(t)

\* A signed transaction with inputs was verified and left a positive fee.
C20_VerifiedWithFee ==
    /\ call # <<>>
    /\ call.op = "verify"
    /\ ~is_coinbase(call.tx)
    /\ call.result[1].ok
    /\ call.result[1].fee > 0

\* C20: verify of a transaction with inputs succeeds exactly when every input
\* key is in the view, every input carries the signature of the resolved
\* output's owner over the transaction's signing hash, and the inputs sum to at
\* least the outputs; the fee it returns is the difference; a coinbase gives
\* (true, 0); the view is what it was.
C20_VerifyContract ==
    (call # <<>> /\ call.op = "verify") =>
        LET tx         == call.tx
            view       == call.view
            result     == call.result[1]
            resolved   == \A i \in 1..Len(tx.inputs) : TxKey(tx.inputs[i]) \in DOMAIN view
            signed     == \A i \in 1..Len(tx.inputs) :
                              LET owner == view[TxKey(tx.inputs[i])].recipient_public_key
                              IN  /\ tx.inputs[i].signature.by = owner
                                  /\ tx.inputs[i].signature.over = <<hash_for_signature(tx)>>
            input_sum  == SumSeq([i \in 1..Len(tx.inputs) |->
                                     view[TxKey(tx.inputs[i])].amount])
            output_sum == SumSeq([i \in 1..Len(tx.outputs) |-> tx.outputs[i].amount])
        IN  /\ call.view_after = view
            /\ IF is_coinbase(tx) THEN result = [ok |-> TRUE, fee |-> 0]
               ELSE /\ result.ok <=> (resolved /\ signed /\ input_sum >= output_sum)
                    /\ result.ok => (result.fee = input_sum - output_sum /\ result.fee >= 0)

\* C21: Transaction.from_dict(t.to_dict()) has the id, timestamp, inputs and
\* outputs of t, and Block.from_dict(b.to_dict()) has the fields and the
\* transactions of b, for every transaction and block, timestamp 0 included.
C21_WireRoundTrip ==
    (call # <<>> /\ call.op = "from_dict") =>
        /\ call.tx_back = <<call.tx>>
        /\ call.block_back = <<call.block>>

\* An input whose signature was absent or another one has been signed.
C22_SignatureChanged ==
    /\ call # <<>>
    /\ call.op = "sign"
    /\ call.tx_after.inputs # call.tx.inputs

\* C22: setting or changing the signature of an input changes neither the id
\* of the transaction, stored or computed again, nor the digest the inputs sign.
C22_SignatureOutsideId ==
    (call # <<>> /\ call.op = "sign") =>
        /\ call.tx_after.id = call.tx.id
        /\ calculate_id(call.tx_after) = calculate_id(call.tx)
        /\ hash_for_signature(call.tx_after) = hash_for_signature(call.tx)

\* The reward of the first block after the first halving has been computed.
C23_RewardAtHalving ==
    /\ call # <<>>
    /\ call.op = "get_mining_reward"
    /\ call.block_index = HALVING_INTERVAL

\* C23: get_mining_reward(i) is INITIAL_REWARD / 2^(i div HALVING_INTERVAL):
\* never negative, never above the reward of the block before, INITIAL_REWARD
\* at HALVING_INTERVAL - 1 and half of it at HALVING_INTERVAL.
C23_RewardHalves ==
    (call # <<>> /\ call.op = "get_mining_reward") =>
        LET i      == call.block_index
            reward == call.reward[1]
        IN  /\ reward.den > 0
            /\ reward.num >= 0
            /\ reward.num * Pow2(i \div HALVING_INTERVAL) = INITIAL_REWARD * reward.den
            /\ i > 0 => reward.num * call.reward_before[1].den
                           <= call.reward_before[1].num * reward.den
            /\ i = HALVING_INTERVAL - 1 => reward.num = INITIAL_REWARD * reward.den
            /\ i = HALVING_INTERVAL => 2 * reward.num = INITIAL_REWARD * reward.den

NextStrikes ==
    \/ BlockStep
    \/ SyncStep
    \/ \E kind \in {"honest", "bad_amount"} : PeerForge(kind)
    \/ \E i \in 2..Len(peer_chain) : Busy("h1") /\ HandleNewBlock("h2", i)
    \/ HandlerValidate("h2")
    \/ HandlerBan("h2")
    \/ HandlerApply("h2")
    \/ HandlerAppend("h2")

SpecStrikes == Init /\ [][NextStrikes]_vars

C27_RejectedDeliveryStruck ==
    \A i \in 2..Len(peer_chain) :
        LET payload == block_to_dict(peer_chain[i])
            block   == block_from_dict(payload, now)
        IN  (\/ payload.difficulty < chain[1].difficulty
             \/ payload.timestamp > now + MAX_TIMESTAMP_DRIFT
             \/ block.previous_hash # get_latest_block(chain).hash
             \/ ~validate_block(block, chain, utxo_set, now))
                => /\ handle_new_block(payload, block, chain, now) = "add_block"
                   /\ ~validate_block(block, chain, utxo_set, now)

\* ------------------------------------------------- convergence
\* The node and its peer, both mining until the bounds stop them, with every
\* thread that can take a step taking it in the end: the miner, the handler of
\* /p2p/block, connect_to_peer and _sync_chain_from, and the peer.
NextConverge == MinerStep \/ BlockStep \/ SyncStep \/ PeerStep

SpecConverge ==
    /\ Init
    /\ [][NextConverge]_vars
    /\ WF_vars(MinerStep)
    /\ WF_vars(BlockStep)
    /\ WF_vars(SyncStep)
    /\ WF_vars(PeerStep)

\* C25: once the miners have stopped and every block and every chain request
\* has been delivered, the node and its peer hold the same chain from then on.
C25_Converges == <>[](chain = peer_chain)

MaxBusy == 0

\* A POST of payload to the /p2p/handshake of node receiver in network net:
\* handle_handshake on the receiver's peer set, and the thread on
\* _propagar_nuevo_peer it may start.
post_handshake(net, receiver, payload) ==
    LET res == handle_handshake(payload, receiver, net.peers[receiver])
        started == IF res.es_nuevo
                   THEN {[thread |-> "propagate", node |-> receiver,
                          peer |-> payload.url[1], pc |-> "handshake",
                          rest1 |-> {}, rest2 |-> {}]}
                   ELSE {}
    IN  [net EXCEPT !.peers[receiver] = res.peers, !.tasks = @ \cup started]

\* POST /connect, the bootstrap of run_node or a saved peer: a thread on
\* connect_to_peer(b) at node a.
StartConnect(a, b) ==
    /\ Cardinality(overlay.tasks) <= MaxBusy
    /\ overlay' = [overlay EXCEPT !.tasks = @ \cup
                      {[thread |-> "connect", node |-> a, peer |-> b, pc |-> "handshake",
                        rest1 |-> {}, rest2 |-> {}]}]
    /\ UNCHANGED <<call, node_vars, peers, peer_strikes, peers_on_disk, miner_vars,
                   handler_vars, sync_vars, env_vars>>

\* One step of a thread t running connect_to_peer: the test and the handshake
\* POST (rest1 keeps the peers the other node had when it answered); the peer
\* added and saved; _discover_peers_from, which starts a thread on
\* connect_to_peer for every peer of the other node that is neither this node
\* nor known to it.
connect_to_peer(t) ==
    /\ t \in overlay.tasks
    /\ t.thread = "connect"
    /\ LET others == [overlay EXCEPT !.tasks = @ \ {t}]
       IN  overlay' =
             CASE t.pc = "handshake" ->
                    IF t.peer \in overlay.peers[t.node] \/ t.peer = t.node
                    THEN others
                    ELSE post_handshake(
                             [others EXCEPT !.tasks = @ \cup
                                 {[t EXCEPT !.pc = "add",
                                            !.rest1 = overlay.peers[t.peer] \ {t.node}]}],
                             t.peer, [url |-> <<t.node>>, version |-> VERSION])
               [] t.pc = "add" ->
                    [others EXCEPT
                        !.peers[t.node] = @ \cup {t.peer},
                        !.connected = @ \cup {[node |-> t.node, peer |-> t.peer,
                                               had |-> t.rest1]},
                        !.tasks = @ \cup {[t EXCEPT !.pc = "discover", !.rest1 = {}]}]
               [] t.pc = "discover" ->
                    [others EXCEPT !.tasks = @ \cup
                        {[thread |-> "connect", node |-> t.node, peer |-> url,
                          pc |-> "handshake", rest1 |-> {}, rest2 |-> {}] :
                            url \in (overlay.peers[t.peer] \ {t.node})
                                        \ overlay.peers[t.node]}]
    /\ UNCHANGED <<call, node_vars, peers, peer_strikes, peers_on_disk, miner_vars,
                   handler_vars, sync_vars, env_vars>>

\* One step of a thread t running _propagar_nuevo_peer: this node's handshake
\* POSTed to the new peer; peers_actuales taken; then one POST of the first
\* loop (the new peer told to an existing one) or, that loop done, of the
\* second (an existing peer told to the new one).
_propagar_nuevo_peer(t) ==
    /\ t \in overlay.tasks
    /\ t.thread = "propagate"
    /\ LET others == [overlay EXCEPT !.tasks = @ \ {t}]
       IN  overlay' =
             CASE t.pc = "handshake" ->
                    post_handshake(
                        [others EXCEPT !.tasks = @ \cup {[t EXCEPT !.pc = "peers_actuales"]}],
                        t.peer, [url |-> <<t.node>>, version |-> VERSION])
               [] t.pc = "peers_actuales" ->
                    [others EXCEPT !.tasks = @ \cup
                        {[t EXCEPT !.pc = "loops",
                                   !.rest1 = overlay.peers[t.node] \ {t.peer},
                                   !.rest2 = overlay.peers[t.node] \ {t.peer}]}]
               [] t.pc = "loops" ->
                    IF t.rest1 # {}
                    THEN LET peer_url == CHOOSE p \in t.rest1 : TRUE
                         IN  post_handshake(
                                 [others EXCEPT !.tasks = @ \cup
                                     {[t EXCEPT !.rest1 = @ \ {peer_url}]}],
                                 peer_url, [url |-> <<t.peer>>, version |-> VERSION])
                    ELSE IF t.rest2 # {}
                    THEN LET peer_url == CHOOSE p \in t.rest2 : TRUE
                         IN  post_handshake(
                                 [others EXCEPT !.tasks = @ \cup
                                     {[t EXCEPT !.rest2 = @ \ {peer_url}]}],
                                 t.peer, [url |-> <<peer_url>>, version |-> VERSION])
                    ELSE others
    /\ UNCHANGED <<call, node_vars, peers, peer_strikes, peers_on_disk, miner_vars,
                   handler_vars, sync_vars, env_vars>>

\* Anyone POSTs a body to the /p2p/handshake of node receiver.
PostHandshake(receiver, payload) ==
    /\ Cardinality(overlay.tasks) <= MaxBusy
    /\ overlay' = post_handshake(overlay, receiver, payload)
    /\ UNCHANGED <<call, node_vars, peers, peer_strikes, peers_on_disk, miner_vars,
                   handler_vars, sync_vars, env_vars>>

NextOverlay ==
    \/ \E a, b \in Nodes : StartConnect(a, b)
    \/ \E receiver \in Nodes : \E payload \in Payloads : PostHandshake(receiver, payload)
    \/ \E t \in overlay.tasks : connect_to_peer(t)
    \/ \E t \in overlay.tasks : _propagar_nuevo_peer(t)

\* A network in which no node knows another yet; every connect thread and
\* every propagation thread, once started, runs on.
SpecOverlay ==
    /\ Init
    /\ [][NextOverlay]_vars
    /\ \A a, b \in Nodes :
          /\ WF_vars(\E t \in overlay.tasks :
                        t.node = a /\ t.peer = b /\ connect_to_peer(t))
          /\ WF_vars(\E t \in overlay.tasks :
                        t.node = a /\ t.peer = b /\ _propagar_nuevo_peer(t))

\* Every node knows every other, through connects that have run to their end.
C28_FullyConnected ==
    /\ overlay.tasks = {}
    /\ overlay.connected # {}
    /\ \A r \in Nodes : overlay.peers[r] = Nodes \ {r}

\* C28: at every node and for every body, handle_handshake with no url, with
\* the node's own url or with a version lower than MIN_VERSION (major, then
\* minor, a missing minor being 0) returns false, leaves the peer set as it
\* was and starts no propagation; with the url of a known peer it leaves the
\* set as it was and starts no propagation; and no node is in its own peer set.
C28_HandshakeRejectsAndNoSelf ==
    \A r \in Nodes :
        /\ r \notin overlay.peers[r]
        /\ \A payload \in Payloads :
              LET res   == handle_handshake(payload, r, overlay.peers[r])
                  minor == IF Len(payload.version) >= 2 THEN payload.version[2] ELSE 0
                  below == \/ payload.version[1] < MIN_VERSION[1]
                           \/ /\ payload.version[1] = MIN_VERSION[1]
                              /\ minor < MIN_VERSION[2]
              IN  /\ (payload.url = <<>> \/ payload.url = <<r>> \/ below)
                        => /\ ~res.ok
                           /\ res.peers = overlay.peers[r]
                           /\ ~res.es_nuevo
                  /\ (payload.url # <<>> /\ payload.url[1] \in overlay.peers[r])
                        => /\ res.peers = overlay.peers[r]
                           /\ ~res.es_nuevo

\* A connect to a node that had a peer has run to its end, with every thread
\* it started.
C29_ConnectedToNodeWithPeers ==
    /\ overlay.tasks = {}
    /\ \E c \in overlay.connected : c.had # {}

\* C29: whenever no connect or propagation thread is left running, for every
\* connect of a node A to a node B that was made, A and B are in each other's
\* peer set and A and every peer B had at the time are in each other's peer
\* set; and from some point on no propagation thread runs.
C29_PropagationCloses ==
    /\ [](overlay.tasks = {}
            => \A c \in overlay.connected :
                  /\ c.node \in overlay.peers[c.peer]
                  /\ c.peer \in overlay.peers[c.node]
                  /\ \A p \in c.had :
                        /\ c.node \in overlay.peers[p]
                        /\ p \in overlay.peers[c.node])
    /\ <>[](\A t \in overlay.tasks : t.thread # "propagate")

\* ------------------------------------------------- further properties
\* C34: in a mining round a mempool transaction whose input is no longer in the
\* live UTXO set is skipped: the round that starts with such an entry in the
\* mempool still builds a block, the block leaves the entry out, and the mining
\* loop keeps running.
C34_StaleEntrySkipped ==
    [][(/\ miner_pc = "wait"
        /\ miner_pc' # "wait"
        /\ \E j \in 1..Len(pending_transactions') :
              ~FeeDefined(pending_transactions'[j], utxo_set))
       => /\ miner_pc' = "built"
          /\ \A j \in 1..Len(pending_transactions') :
                ~FeeDefined(pending_transactions'[j], utxo_set)
                => \A k \in 1..Len(miner_block'[1].transactions) :
                      miner_block'[1].transactions[k] # pending_transactions'[j]]_vars

\* C39: a block that extended the receiver's tip when handle_new_block compared
\* its previous_hash, and whose parent is still in the receiver's chain at the
\* position below it, costs its sender no strike when add_block validates it,
\* however far the miner has moved the tip in between.
C39_HonestSenderNotStruck ==
    [][\A h \in Handlers :
          (/\ handler_pc[h] = "block_received"
           /\ handler_arg[h][1].index <= Len(chain)
           /\ handler_arg[h][1].index >= 1
           /\ chain[handler_arg[h][1].index].hash = handler_arg[h][1].previous_hash)
          => handler_pc'[h] # "struck"]_vars

\* C40: the chain that _adopt_chain installs begins with the block the replaced
\* chain began with, and the fork index of the reorg is at least 1.
C40_GenesisKept ==
    [][(sync_pc = "reinjected" /\ sync_pc' = "idle")
       => /\ chain'[1].hash = chain[1].hash
          /\ fork_index(chain, chain') >= 1]_vars

\* C38: no transaction without inputs is in the mempool, and the block the miner
\* assembles has no coinbase-shaped transaction after its first.
C38_NoCoinbaseShapeAdmitted ==
    /\ \A n \in 1..Len(pending_transactions) : ~is_coinbase(pending_transactions[n])
    /\ miner_block # <<>>
       => \A j \in 2..Len(miner_block[1].transactions) :
             ~is_coinbase(miner_block[1].transactions[j])

\* A client signs a transaction by hand that lists one unspent output it owns
\* in two inputs and pays out twice the output's amount.
SpendTwice ==
    \E key \in DOMAIN utxo_set : \E recipient \in Recipients :
        /\ Cardinality(wallet_txs) < MaxTx
        /\ utxo_set[key].recipient_public_key \in Wallets
        /\ LET inp == [tx_id |-> key[1], output_index |-> key[2], signature |-> NoSig]
           IN  wallet_txs' = wallet_txs \cup
                  {sign(NewTransaction(<<inp, inp>>,
                            <<[amount |-> 2 * utxo_set[key].amount,
                               recipient_public_key |-> recipient]>>, 0, now),
                        utxo_set[key].recipient_public_key)}
        /\ UNCHANGED <<call, node_vars, net_vars, miner_vars, handler_vars, sync_vars,
                       peer_chain, now>>

\* The node alone with its miner and the clients of /transaction.
NextSpend == MinerStep \/ TxStep \/ WalletStep(MaxTx) \/ SpendTwice

SpecSpend == Init /\ [][NextSpend]_vars

\* C36: while no thread is inside an operation, the amounts of the UTXO set add
\* up to the genesis funding plus reward(i) over the blocks after the first.
C36_ValueConserved ==
    LET RECURSIVE total(_)
        total(keys) == IF keys = {} THEN 0
                       ELSE LET k == CHOOSE x \in keys : TRUE
                            IN  utxo_set[k].amount + total(keys \ {k})
        RECURSIVE rewards(_)
        rewards(n) == IF n = 0 THEN 0 ELSE coins(get_mining_reward(n)) + rewards(n - 1)
    IN  Quiescent => total(DOMAIN utxo_set) = GENESIS_AMOUNT + rewards(Len(chain) - 1)

\* The bodies a peer can POST to /p2p/block for a block of its chain: the block's
\* dict as it is, with a declared difficulty below the receiver's genesis
\* difficulty, or with a timestamp beyond the allowed drift.
BlockPayloads ==
    UNION {{block_to_dict(peer_chain[i]),
            [block_to_dict(peer_chain[i]) EXCEPT !.difficulty = chain[1].difficulty - 1],
            [block_to_dict(peer_chain[i]) EXCEPT
                !.timestamp = now + MAX_TIMESTAMP_DRIFT + 1]} :
              i \in 2..Len(peer_chain)}

\* C35 as stated: every block whose previous_hash is not the tip's hash starts a
\* synchronisation exactly when its index is greater than the tip's.
C35_SyncExactlyWhenAhead ==
    \A payload \in BlockPayloads :
        LET block == block_from_dict(payload, now)
        IN  block.previous_hash # get_latest_block(chain).hash
            => (handle_new_block(payload, block, chain, now) = "sync"
                  <=> block.index > get_latest_block(chain).index)

\* A synchronisation thread is running that no connect_to_peer started.
C35_SyncStartedByBlock == sync_pc = "started" /\ peers = {}

\* C35: a block whose previous_hash is not the tip's hash and which passes the
\* two checks on the payload starts a synchronisation when its index is greater
\* than the tip's and is dropped otherwise; a block the payload checks refuse is
\* dropped; no block off the tip reaches add_block; and the step that starts a
\* synchronisation for a block changes no chain, UTXO set, mempool, index,
\* difficulty, peer set or strike count.
C35_StaleBlockRouted ==
    /\ [](\A payload \in BlockPayloads :
             LET block == block_from_dict(payload, now)
                 route == handle_new_block(payload, block, chain, now)
             IN  block.previous_hash # get_latest_block(chain).hash
                 => IF \/ payload.difficulty < chain[1].difficulty
                       \/ payload.timestamp > now + MAX_TIMESTAMP_DRIFT
                    THEN route \in {"low_difficulty", "future_timestamp"}
                    ELSE IF block.index > get_latest_block(chain).index
                         THEN route = "sync"
                         ELSE route = "ignored")
    /\ [][/\ \A h \in Handlers :
                (handler_pc[h] = "idle" /\ handler_pc'[h] = "block_received")
                => handler_arg'[h][1].previous_hash = get_latest_block(chain).hash
          /\ (sync_pc = "idle" /\ sync_pc' = "started" /\ peers' = peers)
             => /\ UNCHANGED <<node_vars, net_vars, handler_vars>>
                /\ \E i \in 2..Len(peer_chain) :
                      /\ peer_chain[i].previous_hash # get_latest_block(chain).hash
                      /\ peer_chain[i].index > get_latest_block(chain).index]_vars

\* ------------------------------------------------- the miner over a retarget
\* The miner starts no block on a chain of this length, or at this time of the
\* clock or later.
MaxProgressChain == 11
MaxProgressClock == 720

\* The node is started one second, or 700 seconds, after GENESIS_TIMESTAMP.
InitProgress ==
    \E start \in {1, 700} :
        /\ chain = <<genesis_block(NODE_DIFFICULTY, start)>>
        /\ utxo_set = apply_transaction(
                          genesis_block(NODE_DIFFICULTY, start).transactions[1], EmptyUtxo)
        /\ pending_transactions = <<>>
        /\ tx_index = [k \in {} |-> 0]
        /\ difficulty = NODE_DIFFICULTY
        /\ peers = {}
        /\ peers_on_disk = {}
        /\ overlay = [peers |-> [n \in Nodes |-> {}], tasks |-> {}, connected |-> {}]
        /\ peer_strikes = [k \in {} |-> 0]
        /\ miner_pc = "wait"
        /\ miner_block = <<>>
        /\ miner_selected = <<>>
        /\ miner_running = TRUE
        /\ handler_pc = [h \in Handlers |-> "idle"]
        /\ handler_arg = [h \in Handlers |-> <<>>]
        /\ sync_pc = "idle"
        /\ sync_chain = <<>>
        /\ peer_chain = <<genesis_block(NODE_DIFFICULTY, start)>>
        /\ wallet_txs = {}
        /\ now = start + 1
        /\ call = <<>>

\* _mining_loop between two rounds: five minutes pass (the nonce search of the
\* next round is slow, or the loop is held at _running.wait()).
MinerPause ==
    /\ miner_pc = "wait"
    /\ now + 300 < MaxProgressClock
    /\ now' = now + 300
    /\ UNCHANGED <<call, node_vars, net_vars, miner_vars, handler_vars, sync_vars,
                   peer_chain, wallet_txs>>

\* The node alone with its miner: no peer, no client.
NextProgress ==
    \/ MinerBuildWithin(MaxProgressChain, MaxProgressClock)
    \/ MinerValidate
    \/ MinerApply
    \/ MinerAppend
    \/ MinerCleanup
    \/ MinerPause

SpecProgress == InitProgress /\ [][NextProgress]_vars /\ WF_vars(NextProgress)

\* C37: the node's current difficulty is never below the difficulty of block 0
\* of its chain, and a block the miner built on the tip its chain still has is
\* accepted by validate_block.
C37_MinerProgress ==
    /\ [](difficulty >= chain[1].difficulty)
    /\ [][(/\ miner_pc = "built"
           /\ miner_block[1].previous_hash = get_latest_block(chain).hash)
          => miner_pc' # "wait"]_vars

\* ------------------------------------------------- Miner.start, stop, resume
\* Blockchain.__init__, Node.__init__ and Miner.__init__: the Event is clear and
\* there is no loop thread yet.
InitMiner ==
    /\ chain = <<genesis_block(NODE_DIFFICULTY, 1)>>
    /\ utxo_set = apply_transaction(genesis_block(NODE_DIFFICULTY, 1).transactions[1],
                                    EmptyUtxo)
    /\ pending_transactions = <<>>
    /\ tx_index = [k \in {} |-> 0]
    /\ difficulty = NODE_DIFFICULTY
    /\ peers = {}
    /\ peers_on_disk = {}
    /\ overlay = [peers |-> [n \in Nodes |-> {}], tasks |-> {}, connected |-> {}]
    /\ peer_strikes = [k \in {} |-> 0]
    /\ miner_pc = "unstarted"
    /\ miner_block = <<>>
    /\ miner_selected = <<>>
    /\ miner_running = FALSE
    /\ handler_pc = [h \in Handlers |-> "idle"]
    /\ handler_arg = [h \in Handlers |-> <<>>]
    /\ sync_pc = "idle"
    /\ sync_chain = <<>>
    /\ peer_chain = <<genesis_block(NODE_DIFFICULTY, 2)>>
    /\ wallet_txs = {}
    /\ now = 3
    /\ call = <<>>

\* Miner.start: nothing when self._thread is set and alive; otherwise the Event
\* is set and a thread is started on _mining_loop. call names the last of
\* start, stop and resume to have returned.
MinerStart ==
    /\ call' = <<"start">>
    /\ IF miner_pc \notin {"unstarted", "dead"}
       THEN UNCHANGED miner_vars
       ELSE /\ miner_running' = TRUE
            /\ miner_pc' = "wait"
            /\ miner_block' = <<>>
            /\ miner_selected' = <<>>
    /\ UNCHANGED <<node_vars, net_vars, handler_vars, sync_vars, env_vars>>

\* Miner.stop: self._running.clear().
MinerStop ==
    /\ call' = <<"stop">>
    /\ miner_running' = FALSE
    /\ UNCHANGED <<node_vars, net_vars, miner_pc, miner_block, miner_selected,
                   handler_vars, sync_vars, env_vars>>

\* Miner.resume: self._running.set() when it is not set.
MinerResume ==
    /\ call' = <<"resume">>
    /\ miner_running' = (IF ~miner_running THEN TRUE ELSE miner_running)
    /\ UNCHANGED <<node_vars, net_vars, miner_pc, miner_block, miner_selected,
                   handler_vars, sync_vars, env_vars>>

\* The node without peers: its mining loop, its clients, and the callers of
\* start, stop and resume.
NextMiner ==
    MinerStep \/ TxStep \/ WalletStep(MaxTx) \/ MinerStart \/ MinerStop \/ MinerResume

SpecMiner == InitMiner /\ [][NextMiner]_vars

\* stop() has returned while a round was in flight, and the round's block is
\* appended.
C32_RoundInFlightCompletes == call = <<"stop">> /\ miner_pc = "appended"

\* C32: stop() leaves the Event clear and resume() leaves it set; the loop
\* starts a round only while the Event is set; while it is clear the chain grows
\* only by the append of the round in flight, and the loop at its wait stays
\* there; start() on a live loop does not touch the Event.
C32_PausedLoopStartsNoRound ==
    /\ [](call = <<"stop">> => ~miner_running)
    /\ [](call = <<"resume">> => miner_running)
    /\ [][/\ (miner_pc = "wait" /\ miner_pc' # "wait") => miner_running
          /\ (~miner_running /\ chain' # chain)
             => (miner_pc = "applied" /\ miner_pc' = "appended"
                 /\ Len(chain') = Len(chain) + 1)
          /\ (call' = <<"start">> /\ miner_pc \notin {"unstarted", "dead"})
             => miner_running' = miner_running]_vars

\* C33: when start() was the last of the three calls to return, the Event is
\* set and a loop thread is alive.
C33_StartedMeansRunning ==
    call = <<"start">> => (miner_running /\ miner_pc \notin {"unstarted", "dead"})

\* C31: a transaction that add_transaction admits (and handle_new_tx then
\* rebroadcasts) is not one the mempool already holds, and a block that
\* handle_new_block appends (and then rebroadcasts) is not one the chain already
\* holds: a transaction or a block delivered again is admitted, and sent on, no
\* second time.
C31_DeliveredAgainNotAdmitted ==
    [][\A h \in Handlers :
          /\ (handler_pc[h] = "tx_accepted" /\ handler_pc'[h] = "idle")
             => \A n \in 1..Len(pending_transactions) :
                   pending_transactions[n] # handler_arg[h][1]
          /\ (handler_pc[h] = "block_applied" /\ handler_pc'[h] = "idle")
             => \A i \in 1..Len(chain) : chain[i] # handler_arg[h][1]]_vars

====
